---- MODULE Spec2Model ----
(***************************************************************************)
(* A model of src/mlpnet.py: the multi-layer perceptron network            *)
(* (MLPLayer, MLPNetwork), its training data object (MLPTrainingData) and  *)
(* the train() adapter.                                                    *)
(*                                                                         *)
(* Arrays are 0-based functions, as in the source: a vector of length n    *)
(* is a function on 0..n-1, a matrix is a record [r, c, a] with a[i][j].   *)
(* Numbers are integers; a value the source divides (a cost, a gradient    *)
(* entry) is an exact rational <<numerator, denominator>> in lowest terms. *)
(* np.log is left uninterpreted: the logistic cost keeps the arguments of  *)
(* its logarithms.                                                         *)
(***************************************************************************)
EXTENDS Integers, Sequences, FiniteSets, TLC

VARIABLES
    phase,      \* "new" | "net" (constructed) | "failed" (constructor raised) | "td" |
                \* "nodata" (no training data yet) | "numeric" (the numerical derivative)
    net,        \* the MLPNetwork's fixed attributes (dimensions, functions, n_weights)
    weights,    \* net.weights: the flat weight buffer
    layers,     \* net.layers: per layer its outputs vector and its weights view
    inputs,     \* what the attribute net.inputs is bound to
    call,       \* the last call: its name, arguments, result and exception
    td,         \* the MLPTrainingData object: inputs, outputs, subsets
    numcall     \* the frame of a compute_derivative_numerically call in progress

vars == <<phase, net, weights, layers, inputs, call, td, numcall>>

-----------------------------------------------------------------------------
(* Bounds of the model                                                     *)

\* Weight values drawn by initialize_weights / supplied to set_weights lie in
\* -MaxWeight..MaxWeight.
MaxWeight == 1
\* Training batches X, y have 1..MaxBatch rows.
MaxBatch == 2
\* Training sets handed to split have 0..MaxRows rows, or 2*MaxRows rows.
MaxRows == 4
\* split ratios are multiples of 1/2^RatioBits (exact in binary floating point,
\* so that n*r and sum(ratios) are computed without rounding).
RatioBits == 2
\* act_funcs / grad_funcs sequences handed to the constructor have 0..MaxFuncs entries.
MaxFuncs == 3

\* The longest of the short theta vectors given to compute_derivative_numerically
MaxTheta == 3

\* "if n > 1000:" in compute_derivative_numerically
PauseAbove == 1000

-----------------------------------------------------------------------------
(* Arithmetic                                                              *)

Abs(x) == IF x < 0 THEN -x ELSE x

RECURSIVE GCD(_, _)
GCD(a, b) == IF b = 0 THEN a ELSE GCD(b, a % b)

\* The rational n/d (d > 0) in lowest terms.
Rat(n, d) == LET g == GCD(Abs(n), d) IN <<n \div g, d \div g>>

RatAdd(p, q) == Rat(p[1] * q[2] + q[1] * p[2], p[2] * q[2])

\* f[0] + ... + f[n-1]
RECURSIVE SumTo(_, _)
SumTo(f, n) == IF n = 0 THEN 0 ELSE f[n - 1] + SumTo(f, n - 1)

Vec(n, e(_)) == [k \in 0..(n - 1) |-> e(k)]

Mat(r, c, e(_, _)) == [r |-> r, c |-> c, a |-> [i \in 0..(r - 1) |-> [j \in 0..(c - 1) |-> e(i, j)]]]

\* np.dot(A, B) of two matrices
Dot(A, B) ==
    LET e(i, j) == SumTo([k \in 0..(A.c - 1) |-> A.a[i][k] * B.a[k][j]], A.c)
    IN Mat(A.r, B.c, e)

\* A.T
Transpose(A) == LET e(i, j) == A.a[j][i] IN Mat(A.c, A.r, e)

\* np.concatenate((np.ones((m, 1)), A), axis=1)
ConcatOnes(A) == LET e(i, j) == IF j = 0 THEN 1 ELSE A.a[i][j - 1] IN Mat(A.r, A.c + 1, e)

\* The matrix with its column 0 left as it is
KeepCol0(A) == A

\* np.concatenate((np.zeros((r, 1)), A[:, 1:]), axis=1)
ZeroCol0(A) == LET e(i, j) == IF j = 0 THEN 0 ELSE A.a[i][j] IN Mat(A.r, A.c, e)

\* A[:, 1:]
DropCol0(A) == LET e(i, j) == A.a[i][j + 1] IN Mat(A.r, A.c - 1, e)

\* A * B, A + B, A - B elementwise
Times(A, B) == LET e(i, j) == A.a[i][j] * B.a[i][j] IN Mat(A.r, A.c, e)
Plus(A, B) == LET e(i, j) == A.a[i][j] + B.a[i][j] IN Mat(A.r, A.c, e)
Minus(A, B) == LET e(i, j) == A.a[i][j] - B.a[i][j] IN Mat(A.r, A.c, e)
Scale(s, A) == LET e(i, j) == s * A.a[i][j] IN Mat(A.r, A.c, e)

\* np.sum(A)
SumAll(A) == SumTo([i \in 0..(A.r - 1) |-> SumTo(A.a[i], A.c)], A.r)

\* A.ravel(): the row-major flattening
Ravel(A) == Vec(A.r * A.c, LAMBDA k : A.a[k \div A.c][k % A.c])

-----------------------------------------------------------------------------
(* Activation functions.  A function value is a record: kind "func" with   *)
(* the function's name, kind "seq" with a sequence of names, or kind       *)
(* "none" (the Python None).  sigmoid, arctan and tanh are transcendental  *)
(* and are never evaluated here: networks that compute are built with the  *)
(* source's linear pair or with a caller-supplied polynomial pair          *)
(* (z*z, 2*z); the constructor takes any callable.                         *)

NoneV == [kind |-> "none", f |-> "", fs |-> <<>>]
Func(name) == [kind |-> "func", f |-> name, fs |-> <<>>]
FuncSeq(s) == [kind |-> "seq", f |-> "", fs |-> s]

default_act_func == Func("sigmoid")
default_grad_func == Func("sigmoid_gradient")

callable(x) == x.kind = "func"

\* act_func(z) for one number
ActScalar(fn, z) ==
    CASE fn.f = "linear" -> z
      [] fn.f = "square" -> z * z

\* grad_func(z) for one number
GradScalar(fn, z) ==
    CASE fn.f = "linear_gradient" -> 1
      [] fn.f = "square_gradient" -> 2 * z

\* The functions applied elementwise to an array
ActM(fn, Z) == LET e(i, j) == ActScalar(fn, Z.a[i][j]) IN Mat(Z.r, Z.c, e)
GradM(fn, Z) == LET e(i, j) == GradScalar(fn, Z.a[i][j]) IN Mat(Z.r, Z.c, e)

-----------------------------------------------------------------------------
(* MLPLayer and MLPNetwork construction                                    *)

\* A (first:last) slice of a flat buffer, reshaped to shape; has = FALSE is None.
NoView == [has |-> FALSE, first |-> 0, last |-> 0, shape |-> <<0, 0>>]
View(first, last, shape) == [has |-> TRUE, first |-> first, last |-> last, shape |-> shape]

\* MLPLayer.__init__: outputs is zero except for outputs[0] = 1.0; weights is None.
\* input_layer is the index of the previous layer, -1 for None.
MLPLayer_init(n_nodes, input_layer, act_func, grad_func) ==
    [n_nodes |-> n_nodes,
     n_outputs |-> n_nodes + 1,
     outputs |-> [k \in 0..n_nodes |-> IF k = 0 THEN 1 ELSE 0],
     input_layer |-> input_layer,
     act_func |-> act_func,
     grad_func |-> grad_func,
     weights |-> NoView]

\* The number of elements of buf[first:last] for a buffer of n elements
\* (Python clips a slice to the buffer).
SliceLen(n, first, last) ==
    LET lo == IF first > n THEN n ELSE first
        hi == IF last > n THEN n ELSE last
    IN IF hi > lo THEN hi - lo ELSE 0

\* The first loop of MLPNetwork.__init__: the layers, each with the previous one
\* as its input layer.
InitLayers(ndim, act_funcs, grad_funcs) ==
    [j \in 0..(Len(ndim) - 1) |->
        MLPLayer_init(ndim[j + 1], j - 1, act_funcs[j], grad_funcs[j])]

\* A count of the weights that leaves the bias column of each layer out
RECURSIVE CountWeightsNoBias(_, _)
CountWeightsNoBias(ls, j) ==
    IF j = 0 THEN 0
    ELSE CountWeightsNoBias(ls, j - 1) + (ls[j].n_outputs - 1) * (ls[j - 1].n_outputs - 1)

\* n_weights as the first loop accumulates it over layers 1..j.
RECURSIVE CountWeights(_, _)
CountWeights(ls, j) ==
    IF j = 0 THEN 0
    ELSE CountWeights(ls, j - 1) + (ls[j].n_outputs - 1) * ls[j - 1].n_outputs

\* The second loop of MLPNetwork.__init__, from layer j on with the running
\* index first: each layer's weights becomes the slice first:last of the flat
\* buffer, reshaped to (n_outputs - 1, previous.n_outputs).
RECURSIVE InitViews(_, _, _, _)
InitViews(ls, n_weights, j, first) ==
    IF j = Cardinality(DOMAIN ls) THEN [err |-> "none", layers |-> ls]
    ELSE LET previous == ls[j - 1]
             layer == ls[j]
             last == first + previous.n_outputs * (layer.n_outputs - 1)
             shape == <<layer.n_outputs - 1, previous.n_outputs>>
         IN IF last > n_weights
            THEN [err |-> "MLPError", layers |-> ls]
            ELSE IF SliceLen(n_weights, first, last) # shape[1] * shape[2]
            THEN [err |-> "MLPError", layers |-> ls]
            ELSE InitViews([ls EXCEPT ![j].weights = View(first, last, shape)],
                           n_weights, j + 1, last)

\* What net.inputs is bound to: a view start:stop of layers[base].outputs, an
\* independent ndarray, or a Python list (data holds the values of the latter two).
InputsView(base, start, stop) ==
    [kind |-> "view", base |-> base, start |-> start, stop |-> stop, data |-> <<>>]
InputsArray(data) == [kind |-> "ndarray", base |-> -1, start |-> 0, stop |-> 0, data |-> data]
InputsList(data) == [kind |-> "list", base |-> -1, start |-> 0, stop |-> 0, data |-> data]

NoNet ==
    [dimensions |-> <<>>, n_layers |-> 0, n_inputs |-> 0, n_outputs |-> 0,
     n_weights |-> 0, act_funcs |-> <<>>, grad_funcs |-> <<>>, cost_function |-> ""]

Failed(e) ==
    [err |-> e, net |-> NoNet, weights |-> <<>>, layers |-> <<>>, inputs |-> InputsArray(<<>>)]

\* [None] + [x]*(n_layers - 1): the object x is repeated as it is, whatever it is.
Repeat(x, n_layers) == [j \in 0..(n_layers - 1) |-> IF j = 0 THEN NoneV ELSE x]

\* [None] + list(fs) for a sequence fs
Prepend(x) == [j \in 0..Len(x.fs) |-> IF j = 0 THEN NoneV ELSE Func(x.fs[j])]

\* The rest of MLPNetwork.__init__ once self.act_funcs and self.grad_funcs are set.
InitNetwork(ndim, act_funcs, grad_funcs, cost_function) ==
    LET n_layers == Len(ndim)
        ls == InitLayers(ndim, act_funcs, grad_funcs)
        n_weights == CountWeights(ls, n_layers - 1)
        carved == InitViews(ls, n_weights, 1, 0)
    IN IF carved.err # "none" THEN Failed(carved.err)
       ELSE [err |-> "none",
             net |-> [dimensions |-> ndim, n_layers |-> n_layers,
                      n_inputs |-> ndim[1], n_outputs |-> ndim[n_layers],
                      n_weights |-> n_weights,
                      act_funcs |-> act_funcs, grad_funcs |-> grad_funcs,
                      cost_function |-> cost_function],
             weights |-> [k \in 0..(n_weights - 1) |-> 0],
             layers |-> carved.layers,
             inputs |-> InputsView(0, 1, carved.layers[0].n_outputs)]

\* MLPNetwork.__init__(ndim, act_funcs=..., grad_funcs=..., cost_function=...)
MLPNetwork_init(ndim, act_funcs_arg, grad_funcs_arg, cost_function) ==
    LET n_layers == Len(ndim)
        act_funcs == IF act_funcs_arg.kind = "none" THEN default_act_func ELSE act_funcs_arg
        grad_funcs == IF grad_funcs_arg.kind = "none" THEN default_grad_func ELSE grad_funcs_arg
    IN IF cost_function \notin {"mse", "log"} THEN Failed("MLPError")
       ELSE IF callable(act_funcs)
       THEN InitNetwork(ndim, Repeat(act_funcs, n_layers),
                        Repeat(grad_funcs, n_layers), cost_function)
       \* list(act_funcs) and the assert on its length, any failure -> ValueError
       ELSE IF Len(act_funcs.fs) + 1 # n_layers THEN Failed("ValueError")
       \* list(grad_funcs) raises for a callable; then the assert on its length
       ELSE IF callable(grad_funcs) THEN Failed("ValueError")
       ELSE IF Len(grad_funcs.fs) + 1 # n_layers THEN Failed("ValueError")
       ELSE InitNetwork(ndim, Prepend(act_funcs), Prepend(grad_funcs), cost_function)

-----------------------------------------------------------------------------
(* MLPNetwork methods.  Each takes the network S = [net, weights, layers,  *)
(* inputs] and its arguments and gives the network after the call          *)
(* (field self), the value returned (ret) and the exception raised (err,   *)
(* "none" when the call returns).                                          *)

Len0(v) == Cardinality(DOMAIN v)

Returns(S, r) == [self |-> S, ret |-> r, err |-> "none"]
Raises(S, e) == [self |-> S, ret |-> <<>>, err |-> e]

\* target[:] = x for a 1-D target of n elements: x of the same length is
\* copied, x of length 1 is broadcast, any other length raises ValueError.
AssignAll(n, x) ==
    IF Len0(x) = n THEN [ok |-> TRUE, v |-> x]
    ELSE IF Len0(x) = 1 THEN [ok |-> TRUE, v |-> [k \in 0..(n - 1) |-> x[0]]]
    ELSE [ok |-> FALSE, v |-> x]

\* initialize_weights(epsilon, method): self.weights[:] = (rand*2 - 1)*epsilon,
\* where drawn is the vector the random source gives.
initialize_weights(S, drawn, method) ==
    IF method = "random"
    THEN Returns([S EXCEPT !.weights = drawn], <<>>)
    ELSE Raises(S, "ValueError")

\* A set_weights that binds the attribute to the caller's array
\* (self.weights = weights) instead of copying into the buffer.
set_weights_rebind(S, w) == Returns([S EXCEPT !.weights = w], <<>>)

\* set_weights(weights): self.weights[:] = weights
set_weights(S, w) ==
    LET got == AssignAll(S.net.n_weights, w)
    IN IF got.ok THEN Returns([S EXCEPT !.weights = got.v], <<>>)
       ELSE Raises(S, "ValueError")

\* set_inputs(inputs): self.inputs[:] = inputs, through whatever self.inputs is
\* bound to.  A list takes any number of values; an array or a view keeps its size.
set_inputs(S, x) ==
    IF S.inputs.kind = "list"
    THEN Returns([S EXCEPT !.inputs.data = x], <<>>)
    ELSE IF S.inputs.kind = "ndarray"
    THEN LET got == AssignAll(Len0(S.inputs.data), x)
         IN IF got.ok THEN Returns([S EXCEPT !.inputs.data = got.v], <<>>)
            ELSE Raises(S, "ValueError")
    ELSE LET b == S.inputs.base
             lo == S.inputs.start
             n == SliceLen(S.layers[b].n_outputs, lo, S.inputs.stop)
             got == AssignAll(n, x)
         IN IF got.ok
            THEN Returns([S EXCEPT !.layers[b].outputs =
                            [k \in DOMAIN @ |-> IF k >= lo /\ k < lo + n
                                                THEN got.v[k - lo] ELSE @[k]]], <<>>)
            ELSE Raises(S, "ValueError")

\* The 2-dimensional array a view shows of the flat buffer buf.
ViewMat(buf, v) ==
    LET e(i, j) == buf[v.first + i * v.shape[2] + j] IN Mat(v.shape[1], v.shape[2], e)

\* A vector as a column / a column as a vector
Column(v) == LET e(i, j) == v[i] IN Mat(Len0(v), 1, e)

\* A calculate_outputs without the test of self.input_layer: on the input
\* layer it returns without computing anything instead of raising.
calculate_outputs_unchecked(S, j) ==
    LET layer == S.layers[j]
    IN IF layer.input_layer # -1
       THEN LET z == Dot(ViewMat(S.weights, layer.weights),
                         Column(S.layers[layer.input_layer].outputs))
                out == ActM(layer.act_func, z)
            IN Returns([S EXCEPT !.layers[j].outputs =
                          [k \in DOMAIN @ |-> IF k >= 1 THEN out.a[k - 1][0] ELSE @[k]]], <<>>)
       ELSE Returns(S, <<>>)

\* A calculate_outputs that assigns to outputs[:-1] instead of outputs[1:].
calculate_outputs_from0(S, j) ==
    LET layer == S.layers[j]
    IN IF layer.input_layer # -1
       THEN LET z == Dot(ViewMat(S.weights, layer.weights),
                         Column(S.layers[layer.input_layer].outputs))
                out == ActM(layer.act_func, z)
            IN Returns([S EXCEPT !.layers[j].outputs =
                          [k \in DOMAIN @ |-> IF k < layer.n_nodes THEN out.a[k][0] ELSE @[k]]], <<>>)
       ELSE Raises(S, "MLPError")

\* MLPLayer.calculate_outputs() of layer j:
\* outputs[1:] = act_func(np.dot(weights, input_layer.outputs))
calculate_outputs(S, j) ==
    LET layer == S.layers[j]
    IN IF layer.input_layer # -1
       THEN LET z == Dot(ViewMat(S.weights, layer.weights),
                         Column(S.layers[layer.input_layer].outputs))
                out == ActM(layer.act_func, z)
            IN Returns([S EXCEPT !.layers[j].outputs =
                          [k \in DOMAIN @ |-> IF k >= 1 THEN out.a[k - 1][0] ELSE @[k]]], <<>>)
       ELSE Raises(S, "MLPError")

\* A loop over the layers that computes the later layers first
RECURSIVE FeedLayersDownward(_, _)
FeedLayersDownward(S, j) ==
    IF j = S.net.n_layers THEN Returns(S, <<>>)
    ELSE LET r == FeedLayersDownward(S, j + 1)
         IN IF r.err # "none" THEN r ELSE calculate_outputs(r.self, j)

\* for layer in self.layers[1:]: layer.calculate_outputs(), from layer j on
RECURSIVE FeedLayers(_, _)
FeedLayers(S, j) ==
    IF j = S.net.n_layers THEN Returns(S, <<>>)
    ELSE LET r == calculate_outputs(S, j)
         IN IF r.err # "none" THEN r ELSE FeedLayers(r.self, j + 1)

\* self.inputs.base is self.layers[0].outputs.  A list has no attribute base;
\* an array that owns its data has base None; a slice of an array has that
\* array as its base, whatever the slice.
InputsBaseIsLayer0(S) == S.inputs.kind = "view" /\ S.inputs.base = 0

\* feed_forward()
feed_forward(S) ==
    IF S.inputs.kind = "list" THEN Raises(S, "AttributeError")
    ELSE IF ~InputsBaseIsLayer0(S) THEN Raises(S, "MLPError")
    ELSE FeedLayers(S, 1)

\* A weights argument: None, or an array with a shape and its values in order.
NoWeights == [given |-> FALSE, shape |-> <<>>, v |-> <<>>]
WeightsArg(shape, v) == [given |-> TRUE, shape |-> shape, v |-> v]

\* A get_theta loop that does not advance the running index (first = last is
\* left out), so that every layer's array starts at element 0.
RECURSIVE ThetaViewsNoAdvance(_, _, _, _)
ThetaViewsNoAdvance(S, j, first, theta) ==
    IF j = S.net.n_layers THEN [err |-> "none", theta |-> theta]
    ELSE LET shape == S.layers[j].weights.shape
             last == first + shape[1] * shape[2]
         IN IF last > S.net.n_weights
            THEN [err |-> "MLPError", theta |-> theta]
            ELSE ThetaViewsNoAdvance(S, j + 1, first,
                                     [theta EXCEPT ![j] = View(first, last, shape)])

\* The loop of get_theta over a supplied array, from layer j on with the
\* running index first: theta[j] = weights[first:last] reshaped to
\* layer.weights.shape, last = first + layer.weights.size.
RECURSIVE ThetaViews(_, _, _, _)
ThetaViews(S, j, first, theta) ==
    IF j = S.net.n_layers THEN [err |-> "none", theta |-> theta]
    ELSE LET shape == S.layers[j].weights.shape
             last == first + shape[1] * shape[2]
         IN IF last > S.net.n_weights
            THEN [err |-> "MLPError", theta |-> theta]
            ELSE IF SliceLen(S.net.n_weights, first, last) # shape[1] * shape[2]
            THEN [err |-> "MLPError", theta |-> theta]
            ELSE ThetaViews(S, j + 1, last, [theta EXCEPT ![j] = View(first, last, shape)])

\* get_theta(weights=None): the per-layer views (None for layer 0) and the
\* buffer they are views of: "self" (the network's own) or "arg" (the supplied one).
get_theta(S, w) ==
    IF ~w.given
    THEN Returns(S, [base |-> "self", views |-> [j \in DOMAIN S.layers |-> S.layers[j].weights]])
    \* building the message of the ValueError adds a tuple to a str: TypeError
    ELSE IF w.shape # <<S.net.n_weights>> THEN Raises(S, "TypeError")
    ELSE LET got == ThetaViews(S, 1, 0, [j \in DOMAIN S.layers |-> NoView])
         IN IF got.err # "none" THEN Raises(S, got.err)
            ELSE Returns(S, [base |-> "arg", views |-> got.theta])

\* Views that read the network's own buffer whatever array was supplied
ThetaBufferOwn(S, w, theta) == S.weights

\* The buffer the views of a get_theta result read.
ThetaBuffer(S, w, theta) == IF theta.base = "self" THEN S.weights ELSE w.v

\* An array argument: a list or an ndarray of 1 or 2 dimensions; m holds the
\* values as rows (a 1-dimensional array of n values is the single row of m).
ArrayArg(type, ndim, m) == [type |-> type, ndim |-> ndim, m |-> m]

\* inputs = np.asarray(inputs); if len(inputs.shape) == 1: inputs.shape = (1, n).
\* asarray gives the caller's own object when it is an ndarray, and the
\* assignment to shape then reshapes the caller's array.
AfterAsarrayReshape(x) ==
    IF x.type = "ndarray" /\ x.ndim = 1 THEN [x EXCEPT !.ndim = 2] ELSE x

\* The loop of predict from layer j on: outputs = act_func(np.dot(
\* np.concatenate((ones, outputs), axis=1), theta[j].T))
RECURSIVE PredictLayers(_, _, _, _)
PredictLayers(S, thetaM, j, outputs) ==
    IF j = S.net.n_layers THEN [err |-> "none", outputs |-> outputs]
    ELSE IF outputs.c + 1 # thetaM[j].c
    THEN [err |-> "ValueError", outputs |-> outputs]
    ELSE PredictLayers(S, thetaM, j + 1,
            ActM(S.layers[j].act_func, Dot(ConcatOnes(outputs), Transpose(thetaM[j]))))

\* The arrays theta[j], j >= 1, of a get_theta result.
ThetaMats(S, w, theta) ==
    [j \in 1..(S.net.n_layers - 1) |-> ViewMat(ThetaBuffer(S, w, theta), theta.views[j])]

\* A predict that returns the prediction for the first example only
\* (outputs[0:1] instead of outputs).
predict_first_row(S, x, w) ==
    LET xa == AfterAsarrayReshape(x)
        th == get_theta(S, w)
    IN IF th.err # "none" THEN [self |-> S, ret |-> <<>>, err |-> th.err, x |-> xa]
       ELSE LET got == PredictLayers(S, ThetaMats(S, w, th.ret), 1, x.m)
            IN IF got.err # "none" THEN [self |-> S, ret |-> <<>>, err |-> got.err, x |-> xa]
               ELSE [self |-> S,
                     ret |-> [ndim |-> 2,
                              m |-> [r |-> 1, c |-> got.outputs.c,
                                     a |-> (0 :> got.outputs.a[0])]],
                     err |-> "none", x |-> xa]

\* A predict that copies the supplied weights into the network
\* (self.weights[:] = weights) before it computes.
predict_storing(S, x, w) ==
    LET xa == AfterAsarrayReshape(x)
        th == get_theta(S, w)
        S1 == IF w.given THEN [S EXCEPT !.weights = w.v] ELSE S
    IN IF th.err # "none" THEN [self |-> S, ret |-> <<>>, err |-> th.err, x |-> xa]
       ELSE LET got == PredictLayers(S, ThetaMats(S, w, th.ret), 1, x.m)
            IN IF got.err # "none" THEN [self |-> S1, ret |-> <<>>, err |-> got.err, x |-> xa]
               ELSE [self |-> S1, ret |-> [ndim |-> 2, m |-> got.outputs],
                     err |-> "none", x |-> xa]

\* predict(inputs, weights=None).  Field x is the caller's inputs object after
\* the call; the result is always 2-dimensional, (m, n_outputs).
predict(S, x, w) ==
    LET xa == AfterAsarrayReshape(x)
        th == get_theta(S, w)
    IN IF th.err # "none" THEN [self |-> S, ret |-> <<>>, err |-> th.err, x |-> xa]
       ELSE LET got == PredictLayers(S, ThetaMats(S, w, th.ret), 1, x.m)
            IN IF got.err # "none" THEN [self |-> S, ret |-> <<>>, err |-> got.err, x |-> xa]
               ELSE [self |-> S, ret |-> [ndim |-> 2, m |-> got.outputs],
                     err |-> "none", x |-> xa]

\* The feed-forward part of both cost functions from layer j on:
\* Z[j] = np.dot(A[j - 1], theta[j].T); A[j] = act_func(Z[j]), with a column
\* of ones in front for every layer but the last.
RECURSIVE Forward(_, _, _, _)
Forward(S, thetaM, j, AZ) ==
    IF j = S.net.n_layers THEN AZ
    ELSE LET Zj == Dot(AZ.A[j - 1], Transpose(thetaM[j]))
             act == ActM(S.layers[j].act_func, Zj)
             Aj == IF j = S.net.n_layers - 1 THEN act ELSE ConcatOnes(act)
         IN Forward(S, thetaM, j + 1, [A |-> (j :> Aj) @@ AZ.A, Z |-> (j :> Zj) @@ AZ.Z])

\* A cost: the exact part plus, for the logistic cost, the uninterpreted
\* np.sum(-y*np.log(A) - (1.0 - y)*np.log(1.0 - A))/m, kept as (A, y, m).
NoLog == [A |-> <<>>, y |-> <<>>, m |-> 0]
Cost(exact, logsum) == [exact |-> exact, logsum |-> logsum]

\* J = 0.5*np.sum((A[-1] - y)**2)/m
CostMse(Alast, y, m) ==
    LET d == Minus(Alast, y) IN Cost(Rat(SumAll(Times(d, d)), 2 * m), NoLog)

\* J = np.sum(-y*np.log(A[-1]) - (1.0 - y)*np.log(1.0 - A[-1]))/m
CostLog(Alast, y, m) == Cost(<<0, 1>>, [A |-> Alast.a, y |-> y.a, m |-> m])

\* The regularization loop from layer j on:
\* J = J + lambda_param*np.sum(theta[j][:, 1:]**2)/(2.0*m)
RECURSIVE Regularize(_, _, _, _, _, _)
Regularize(J, thetaM, n_layers, j, lambda_param, m) ==
    IF j = n_layers THEN J
    ELSE LET t == DropCol0(thetaM[j])
             term == Rat(lambda_param * SumAll(Times(t, t)), 2 * m)
         IN Regularize([J EXCEPT !.exact = RatAdd(@, term)], thetaM, n_layers, j + 1,
                       lambda_param, m)

\* A cost that is regularized only on the way to the gradient: the
\* regularization loop is moved below the "if not jac: return J" exit.
CostOfJac(kind, S, thetaM, AZ, y, lambda_param, m, jac) ==
    LET Alast == AZ.A[S.net.n_layers - 1]
        J == IF kind = "mse" THEN CostMse(Alast, y, m) ELSE CostLog(Alast, y, m)
    IN IF lambda_param # 0 /\ jac
       THEN Regularize(J, thetaM, S.net.n_layers, 1, lambda_param, m)
       ELSE J

\* cost_function with that cost.
CostComputeLateReg(S, kind, X, y, w, lambda_param, jac) ==
    LET m == X.r
        th == get_theta(S, w)
    IN IF th.err # "none" THEN [err |-> th.err, ret |-> <<>>]
       ELSE LET thetaM == ThetaMats(S, w, th.ret)
            IN IF X.c + 1 # thetaM[1].c THEN [err |-> "ValueError", ret |-> <<>>]
               ELSE LET AZ == Forward(S, thetaM, 1, [A |-> (0 :> ConcatOnes(X)), Z |-> <<>>])
                        J == CostOfJac(kind, S, thetaM, AZ, y, lambda_param, m, jac)
                    IN [err |-> "none",
                        ret |-> [tuple |-> jac, J |-> J, grad |-> <<>>]]

\* The cost J both cost functions return, before any gradient is computed.
CostOf(kind, S, thetaM, AZ, y, lambda_param, m) ==
    LET Alast == AZ.A[S.net.n_layers - 1]
        J == IF kind = "mse" THEN CostMse(Alast, y, m) ELSE CostLog(Alast, y, m)
    IN IF lambda_param # 0 THEN Regularize(J, thetaM, S.net.n_layers, 1, lambda_param, m)
       ELSE J

\* A gradient-array loop that does not advance the running index (first =
\* last is left out): every theta_grad[j] starts at element 0 of grad.
RECURSIVE GradViewsNoAdvance(_, _, _, _)
GradViewsNoAdvance(S, j, first, tg) ==
    IF j = S.net.n_layers THEN [err |-> "none", theta_grad |-> tg]
    ELSE LET previous == S.layers[j - 1]
             layer == S.layers[j]
             last == first + previous.n_outputs * (layer.n_outputs - 1)
             shape == <<layer.n_outputs - 1, previous.n_outputs>>
         IN IF last > S.net.n_weights
            THEN [err |-> "MLPError", theta_grad |-> tg]
            ELSE GradViewsNoAdvance(S, j + 1, first,
                                    [tg EXCEPT ![j] = View(first, last, shape)])

\* "Now initialise gradient arrays", from layer j on with the running index
\* first: theta_grad[j] = grad[first:last] reshaped to
\* (layer.n_outputs - 1, previous.n_outputs)
RECURSIVE GradViews(_, _, _, _)
GradViews(S, j, first, tg) ==
    IF j = S.net.n_layers THEN [err |-> "none", theta_grad |-> tg]
    ELSE LET previous == S.layers[j - 1]
             layer == S.layers[j]
             last == first + previous.n_outputs * (layer.n_outputs - 1)
             shape == <<layer.n_outputs - 1, previous.n_outputs>>
         IN IF last > S.net.n_weights
            THEN [err |-> "MLPError", theta_grad |-> tg]
            ELSE IF SliceLen(S.net.n_weights, first, last) # shape[1] * shape[2]
            THEN [err |-> "MLPError", theta_grad |-> tg]
            ELSE GradViews(S, j + 1, last, [tg EXCEPT ![j] = View(first, last, shape)])

\* A back-propagation loop that drops the last column in place of column 0
RECURSIVE BackwardDropLast(_, _, _, _, _)
BackwardDropLast(S, thetaM, AZ, j, sigma) ==
    IF j <= 0 THEN sigma
    ELSE LET p == Times(Dot(sigma[j + 1], thetaM[j + 1]),
                        GradM(S.layers[j + 1].grad_func, ConcatOnes(AZ.Z[j])))
             s == Mat(p.r, p.c - 1, LAMBDA i, c : p.a[i][c])
         IN BackwardDropLast(S, thetaM, AZ, j - 1, (j :> s) @@ sigma)

\* The back-propagation loop, for j = n_layers - 2 down to 1:
\* sigma[j] = (np.dot(sigma[j + 1], theta[j + 1]) *
\*             layers[j + 1].grad_func(concatenate((ones, Z[j]), axis=1)))[:, 1:]
RECURSIVE Backward(_, _, _, _, _)
Backward(S, thetaM, AZ, j, sigma) ==
    IF j <= 0 THEN sigma
    ELSE LET s == DropCol0(Times(Dot(sigma[j + 1], thetaM[j + 1]),
                                 GradM(S.layers[j + 1].grad_func, ConcatOnes(AZ.Z[j]))))
         IN Backward(S, thetaM, AZ, j - 1, (j :> s) @@ sigma)

\* A delta of the logistic cost that has the factor grad_func(Z[j]) as well
DeltaLogWithFactor(layer, sigma_j, Zj, Aprev) ==
    Dot(Transpose(Times(sigma_j, GradM(layer.grad_func, Zj))), Aprev)

\* cost_function_log: delta[j] = np.dot(sigma[j].T, A[j - 1])
DeltaLog(layer, sigma_j, Zj, Aprev) == Dot(Transpose(sigma_j), Aprev)

\* cost_function_mse: delta[j] = (sigma[j]*layer.grad_func(Z[j])).T.dot(A[j - 1])
DeltaMse(layer, sigma_j, Zj, Aprev) ==
    Dot(Transpose(Times(sigma_j, GradM(layer.grad_func, Zj))), Aprev)

\* view[:] = M/m written into the flat buffer grad
WriteView(grad, v, M, m) ==
    [k \in DOMAIN grad |->
        IF k >= v.first /\ k < v.last
        THEN Rat(M.a[(k - v.first) \div v.shape[2]][(k - v.first) % v.shape[2]], m)
        ELSE grad[k]]

\* "Calculate the deltas and gradients for each layer", from layer j on:
\* theta_grad[j][:] = (delta[j] + lambda_param*concatenate((zeros, theta[j][:, 1:]), axis=1))/m
RECURSIVE WriteGrads(_, _, _)
WriteGrads(c, j, grad) ==
    IF j = c.S.net.n_layers THEN grad
    ELSE LET layer == c.S.layers[j]
             delta == IF c.kind = "mse"
                      THEN DeltaMse(layer, c.sigma[j], c.AZ.Z[j], c.AZ.A[j - 1])
                      ELSE DeltaLog(layer, c.sigma[j], c.AZ.Z[j], c.AZ.A[j - 1])
             M == Plus(delta, Scale(c.lambda_param, ZeroCol0(c.thetaM[j])))
         IN WriteGrads(c, j + 1, WriteView(grad, c.theta_grad[j], M, c.m))

\* The gradient part of both cost functions: grad, or the exception raised.
GradOf(kind, S, thetaM, AZ, y, lambda_param, m) ==
    LET L == S.net.n_layers
        tg == GradViews(S, 1, 0, [j \in DOMAIN S.layers |-> NoView])
        sigma == Backward(S, thetaM, AZ, L - 2, ((L - 1) :> Minus(AZ.A[L - 1], y)))
        c == [kind |-> kind, S |-> S, thetaM |-> thetaM, AZ |-> AZ, sigma |-> sigma,
              theta_grad |-> tg.theta_grad, lambda_param |-> lambda_param, m |-> m]
    IN IF tg.err # "none" THEN [err |-> tg.err, grad |-> <<>>]
       ELSE [err |-> "none",
             grad |-> WriteGrads(c, 1, [k \in 0..(S.net.n_weights - 1) |-> <<0, 1>>])]

\* What cost_function_mse / cost_function_log compute: J when jac is false,
\* (J, grad) otherwise, or the exception raised.
CostCompute(S, kind, X, y, w, lambda_param, jac) ==
    LET m == X.r
        th == get_theta(S, w)
    IN IF th.err # "none" THEN [err |-> th.err, ret |-> <<>>]
       ELSE LET thetaM == ThetaMats(S, w, th.ret)
            IN IF X.c + 1 # thetaM[1].c THEN [err |-> "ValueError", ret |-> <<>>]
               ELSE LET AZ == Forward(S, thetaM, 1, [A |-> (0 :> ConcatOnes(X)), Z |-> <<>>])
                        J == CostOf(kind, S, thetaM, AZ, y, lambda_param, m)
                    IN IF ~jac THEN [err |-> "none", ret |-> [tuple |-> FALSE, J |-> J, grad |-> <<>>]]
                       ELSE LET g == GradOf(kind, S, thetaM, AZ, y, lambda_param, m)
                            IN IF g.err # "none" THEN [err |-> g.err, ret |-> <<>>]
                               ELSE [err |-> "none",
                                     ret |-> [tuple |-> TRUE, J |-> J, grad |-> g.grad]]

\* A cost function that first loads the trial weights into the network
\* (self.weights[:] = weights, as a minimize wrapper might).
cost_function_storing(S, kind, X, y, w, lambda_param, jac) ==
    LET r == CostCompute(S, kind, X, y, w, lambda_param, jac)
        got == AssignAll(S.net.n_weights, w.v)
    IN [self |-> IF w.given /\ got.ok THEN [S EXCEPT !.weights = got.v] ELSE S,
        w |-> w, ret |-> r.ret, err |-> r.err]

\* cost_function_mse / cost_function_log (X, y, weights, lambda_param, jac):
\* the network and the caller's weights array after the call, and the result.
\* Neither is written: theta and theta_grad are views of weights and of the
\* local grad, and only theta_grad is assigned to.
cost_function(S, kind, X, y, w, lambda_param, jac) ==
    LET r == CostCompute(S, kind, X, y, w, lambda_param, jac)
    IN [self |-> S, w |-> w, ret |-> r.ret, err |-> r.err]

\* minimize(cost_func, net.weights, jac=True, ...): cost_func, which is
\* net.cost_function(data.inputs, data.outputs, x, jac=True, lambda_param),
\* is evaluated at the trial vectors in turn, the first of them a copy of
\* net.weights.  during collects net.weights as it is after each evaluation.
RECURSIVE Evaluate(_, _, _, _, _, _, _)
Evaluate(S, X, y, lambda_param, trials, i, during) ==
    IF i > Len(trials) THEN [self |-> S, during |-> during, err |-> "none"]
    ELSE LET rest(r) ==
                 IF r.err # "none" THEN [self |-> r.self, during |-> during, err |-> r.err]
                 ELSE Evaluate(r.self, X, y, lambda_param, trials, i + 1,
                               Append(during, r.self.weights))
         IN CHOOSE e \in {rest(r) : r \in {cost_function(S, S.net.cost_function, X, y,
                                WeightsArg(<<S.net.n_weights>>, trials[i]), lambda_param, TRUE)}} :
                TRUE

\* train with "if update:" in place of "if update is True:"
train_truthy(S, X, y, lambda_param, trials, update) ==
    LET resx == trials[Len(trials)]
        finish(e) ==
            IF e.err # "none" THEN [self |-> e.self, ret |-> <<>>, err |-> e.err, during |-> e.during]
            ELSE [self |-> IF update # "False" THEN [e.self EXCEPT !.weights = resx] ELSE e.self,
                  ret |-> [x |-> resx], err |-> "none", during |-> e.during]
    IN CHOOSE r \in {finish(e) : e \in {Evaluate(S, X, y, lambda_param, trials, 1, <<>>)}} : TRUE

\* train(net, data, update=..., lambda_param=...): the result res of minimize
\* has res.x, here the last vector tried; "if update is True:
\* net.weights[:] = res.x".  An update of 1 is not True.
train(S, X, y, lambda_param, trials, update) ==
    LET resx == trials[Len(trials)]
        finish(e) ==
            IF e.err # "none" THEN [self |-> e.self, ret |-> <<>>, err |-> e.err, during |-> e.during]
            ELSE [self |-> IF update = "True" THEN [e.self EXCEPT !.weights = resx] ELSE e.self,
                  ret |-> [x |-> resx], err |-> "none", during |-> e.during]
    IN CHOOSE r \in {finish(e) : e \in {Evaluate(S, X, y, lambda_param, trials, 1, <<>>)}} : TRUE

-----------------------------------------------------------------------------
(* MLPTrainingData                                                         *)

\* np.concatenate((A, B), axis=1)
ConcatCols(A, B) ==
    LET e(i, j) == IF j < A.c THEN A.a[i][j] ELSE B.a[i][j - A.c] IN Mat(A.r, A.c + B.c, e)

\* A[:, lo:hi] for 0 <= lo <= hi <= A.c
ColSlice(A, lo, hi) == LET e(i, j) == A.a[i][lo + j] IN Mat(A.r, hi - lo, e)

\* A slice bound i on a dimension of n elements: a negative bound counts from
\* the end, and the bound is clipped to 0..n.
PyIndex(n, i) ==
    IF i < 0 THEN (IF i + n < 0 THEN 0 ELSE i + n) ELSE (IF i > n THEN n ELSE i)

\* A[start:finish, :]
RowSlice(A, start, finish) ==
    LET lo == PyIndex(A.r, start)
        hi == PyIndex(A.r, finish)
        e(i, j) == A.a[lo + i][j]
    IN Mat(IF hi > lo THEN hi - lo ELSE 0, A.c, e)

\* A shuffle that leaves column 0 in its order
ShuffleRowsButCol0(A, perm) ==
    LET e(i, j) == IF j = 0 THEN A.a[i][j] ELSE A.a[perm[i]][j] IN Mat(A.r, A.c, e)

\* np.random.shuffle(data) when the random source draws the row order perm:
\* row i of the result is row perm[i] of A.
ShuffleRows(A, perm) == LET e(i, j) == A.a[perm[i]][j] IN Mat(A.r, A.c, e)

\* The MLPTrainingData object: data is the combined matrix (has = FALSE for
\* None); the attributes n_subsets and subsets exist once split has set them.
NoData == [has |-> FALSE, m |-> <<>>]
TrainingData(data, inp, out) ==
    [data |-> data, inputs |-> inp, outputs |-> out, n_in |-> inp.c, n_out |-> out.c,
     has_n_subsets |-> FALSE, n_subsets |-> 0, has_subsets |-> FALSE, subsets |-> <<>>]

\* MLPTrainingData(data=data, ndim=(n_in, n_out)) for a 2-dimensional data of
\* n_in + n_out columns: inputs and outputs are its column slices.
FromData(data, n_in, n_out) ==
    TrainingData([has |-> TRUE, m |-> data], ColSlice(data, 0, n_in),
                 ColSlice(data, n_in, n_in + n_out))

\* MLPTrainingData(inputs=inp, outputs=out) for 2-dimensional arrays
FromArrays(inp, out) == TrainingData(NoData, inp, out)

\* The float NaN, held as an integer that no number of the data equals.
NaN == -(2 ^ 20)

\* A NaN test that finds nothing
HasNaNNever(A) == FALSE

\* np.isnan(A).sum(axis=None) > 0
HasNaN(A) == \E i \in 0..(A.r - 1), j \in 0..(A.c - 1) : A.a[i][j] = NaN

\* No array given (None)
NoArray == ArrayArg("none", 0, [r |-> 0, c |-> 0, a |-> <<>>])

\* scaling=True: mu = np.mean(inputs, axis=0), sigma = np.std(inputs, axis=0),
\* inputs[:] = (inputs - mu)*0.25/sigma, column by column.  A column whose
\* values are all equal has sigma = 0 and inputs - mu = 0, and 0.0/0.0 is NaN
\* (numpy warns, it does not raise).  For any other column the result is
\* (x - mu) times the positive number 0.25/sigma, which is irrational in
\* general: it is held as its multiple n*(x - mu), an integer of the same sign.
Scaled(A) ==
    LET colsum(j) == SumTo([i \in 0..(A.r - 1) |-> A.a[i][j]], A.r)
        constant(j) == \A i \in 0..(A.r - 1) : A.a[i][j] = A.a[0][j]
        e(i, j) == IF constant(j) THEN NaN ELSE A.r * A.a[i][j] - colsum(j)
    IN Mat(A.r, A.c, e)

\* The end of MLPTrainingData.__init__: the scaling, written through
\* self.inputs, which is a view of self.data when data was given.
WithScaling(self, scaling) ==
    IF ~scaling THEN self
    ELSE LET inp == Scaled(self.inputs)
         IN [self EXCEPT !.inputs = inp,
                         !.data = IF @.has
                                  THEN [has |-> TRUE, m |-> ConcatCols(inp, self.outputs)]
                                  ELSE @]

\* An inputs / outputs argument as np.asarray(x, dtype=np.float) and the
\* shape handling give it: 2-dimensional as it is, 1-dimensional as a column.
AsColumns(x) == IF x.ndim = 1 THEN Transpose(x.m) ELSE x.m

\* MLPTrainingData.__init__(data=, ndim=(n_in, n_out), inputs=, outputs=,
\* scaling=): the object (field self) or the exception raised.
MLPTrainingData_init(data, n_in, n_out, inp, out, scaling) ==
    LET failed == [err |-> "ValueError", self |-> FromArrays(NoArray.m, NoArray.m)]
    IN IF data.type # "none"
       THEN IF data.ndim # 2 THEN failed
            ELSE IF data.m.c # n_in + n_out THEN failed
            ELSE IF HasNaN(data.m) THEN failed
            ELSE [err |-> "none", self |-> WithScaling(FromData(data.m, n_in, n_out), scaling)]
       ELSE IF HasNaN(inp.m) THEN failed
            ELSE IF HasNaN(out.m) THEN failed
            ELSE IF inp.ndim \notin {1, 2} THEN failed
            ELSE IF out.ndim \notin {1, 2} THEN failed
            ELSE [err |-> "none",
                  self |-> WithScaling(FromArrays(AsColumns(inp), AsColumns(out)), scaling)]

\* The ratio k/2^RatioBits is held as its numerator k.
RatioDen == 2 ^ RatioBits

RECURSIVE SumSeq(_)
SumSeq(s) == IF s = <<>> THEN 0 ELSE Head(s) + SumSeq(Tail(s))

\* int(n*r): the product truncated towards zero
IntOfProduct(n, k) ==
    IF n * k >= 0 THEN (n * k) \div RatioDen ELSE -((-(n * k)) \div RatioDen)

\* Subset sizes without the remainder rule: int(n*r) for every ratio, the
\* last one too.
SubsetSizesNoRemainder(n, ratios) ==
    [i \in 1..Len(ratios) |-> IntOfProduct(n, ratios[i])]

\* num: int(n*r) for each ratio, then num[-1] = n - sum(num[:-1])
SubsetSizes(n, ratios) ==
    LET num == [i \in 1..Len(ratios) |-> IntOfProduct(n, ratios[i])]
    IN [num EXCEPT ![Len(ratios)] = n - SumSeq(SubSeq(num, 1, Len(ratios) - 1))]

\* The loop of split that builds the subsets, from subset i on with the
\* running row index start.  names[i] raises IndexError when names is shorter.
RECURSIVE BuildSubsets(_, _, _, _, _, _)
BuildSubsets(self, num, n_names, i, start, subsets) ==
    IF i > Len(num) THEN [err |-> "none", subsets |-> subsets]
    ELSE IF i > n_names THEN [err |-> "IndexError", subsets |-> subsets]
    ELSE LET finish == start + num[i]
             child == FromArrays(RowSlice(self.inputs, start, finish),
                                 RowSlice(self.outputs, start, finish))
         IN BuildSubsets(self, num, n_names, i + 1, finish, Append(subsets, child))

\* split without the validation of the ratios
split_unchecked(self, ratios, n_names, shuffle, perm) ==
    LET n_out == self.outputs.c
        num == SubsetSizes(self.inputs.r, ratios)
        data == ConcatCols(self.outputs, self.inputs)
        shuffled == IF shuffle THEN ShuffleRows(data, perm) ELSE data
        s1 == [self EXCEPT !.has_n_subsets = TRUE,
                           !.n_subsets = Len(ratios),
                           !.outputs = ColSlice(shuffled, 0, n_out),
                           !.inputs = ColSlice(shuffled, n_out, shuffled.c)]
        built == BuildSubsets(s1, num, n_names, 1, 0, <<>>)
    IN [self |-> [s1 EXCEPT !.has_subsets = TRUE, !.subsets = built.subsets],
        ret |-> <<>>, err |-> built.err]

\* split(ratios, names, shuffle): self after the call and the exception raised.
split(self, ratios, n_names, shuffle, perm) ==
    IF SumSeq(ratios) # RatioDen THEN [self |-> self, ret |-> <<>>, err |-> "ValueError"]
    ELSE LET n == self.inputs.r
             n_out == self.outputs.c
             num == SubsetSizes(n, ratios)
             data == ConcatCols(self.outputs, self.inputs)
             shuffled == IF shuffle THEN ShuffleRows(data, perm) ELSE data
             s1 == [self EXCEPT !.has_n_subsets = TRUE,
                                !.n_subsets = Len(ratios),
                                !.outputs = ColSlice(shuffled, 0, n_out),
                                !.inputs = ColSlice(shuffled, n_out, shuffled.c)]
             built == BuildSubsets(s1, num, n_names, 1, 0, <<>>)
         IN [self |-> [s1 EXCEPT !.has_subsets = TRUE, !.subsets = built.subsets],
             ret |-> <<>>, err |-> built.err]

-----------------------------------------------------------------------------
(* The values the calls are made with                                      *)

\* Dimension lists of the networks that compute.
NetDims == {<<1, 1>>, <<2, 2, 1>>}

\* (act_func, grad_func) pairs of the networks that compute.
FuncPairs == {<<"linear", "linear_gradient">>, <<"square", "square_gradient">>}

\* The vector w[k] = ((a*k + b) mod (2*MaxWeight + 1)) - MaxWeight of length n
PatVec(n, a, b) == [k \in 0..(n - 1) |-> ((a * k + b) % (2 * MaxWeight + 1)) - MaxWeight]

\* Weight vectors of length n: constant ones and ones that cycle through the values.
WeightVecs(n) == {PatVec(n, a, b) : a \in 0..1, b \in {MaxWeight, 2 * MaxWeight}}

\* weights arguments for a network of n weights: None, vectors of the right
\* shape, a vector one element too long, and a 2-dimensional (1, n) array.
WeightsArgs(n) ==
    {NoWeights}
    \cup {WeightsArg(<<n>>, PatVec(n, 1, b)) : b \in {MaxWeight, 2 * MaxWeight}}
    \cup {WeightsArg(<<n + 1>>, PatVec(n + 1, 1, MaxWeight)),
          WeightsArg(<<1, n>>, PatVec(n, 1, MaxWeight))}

\* A weights argument of the right shape whose n values are all different.
RampArg(n) == WeightsArg(<<n>>, [k \in 0..(n - 1) |-> k - MaxWeight])

\* A batch of m rows: inputs X (m, n_in) and targets y (m, n_out) in {0, 1}.
BatchX(m, n_in) == LET e(i, j) == (i + j + 1) % 2 IN Mat(m, n_in, e)
BatchY(m, n_out) == LET e(i, j) == (i + j) % 2 IN Mat(m, n_out, e)

\* Input vectors of length n for set_inputs, and one that is one value too long.
InputVecs(n) == {[k \in 0..(n - 1) |-> (k + b) % 2] : b \in 0..1}
    \cup {[k \in 0..n |-> 1]}

\* inputs arguments of predict: one example as a 1-dimensional ndarray or
\* list, or a batch of 1..MaxBatch rows.
PredictArgs(n_in) ==
    {ArrayArg(t, 1, BatchX(1, n_in)) : t \in {"ndarray", "list"}}
    \cup {ArrayArg("ndarray", 2, BatchX(m, n_in)) : m \in 1..MaxBatch}

Self == [net |-> net, weights |-> weights, layers |-> layers, inputs |-> inputs]

NoTd == FromArrays(Mat(0, 0, LAMBDA i, j : 0), Mat(0, 0, LAMBDA i, j : 0))

\* No call of compute_derivative_numerically is in progress
NoNum == [pc |-> "none"]

NoCall == [op |-> "none", arg |-> <<>>, ret |-> <<>>, err |-> "none", after |-> <<>>]
Called(op, arg, r, after) ==
    [op |-> op, arg |-> arg, ret |-> r.ret, err |-> r.err, after |-> after]

\* The network after a call
Becomes(S) ==
    /\ weights' = S.weights
    /\ layers' = S.layers
    /\ inputs' = S.inputs
    /\ UNCHANGED <<phase, net, td, numcall>>

-----------------------------------------------------------------------------
(* The network as a state machine: it is constructed, and then any method  *)
(* is called with any arguments.  The program is single-threaded and       *)
(* synchronous: a call is made when the previous one has returned or       *)
(* raised and the caller has taken its result (Return).                    *)

Idle(p) == phase = p /\ call.op = "none"

Return ==
    /\ call.op # "none"
    /\ call' = NoCall
    /\ UNCHANGED <<phase, net, weights, layers, inputs, td, numcall>>

Init ==
    \E ndim \in NetDims, fp \in FuncPairs, cf \in {"mse", "log"} :
        LET r == MLPNetwork_init(ndim, Func(fp[1]), Func(fp[2]), cf)
        IN /\ r.err = "none"
           /\ phase = "net"
           /\ net = r.net
           /\ weights = r.weights
           /\ layers = r.layers
           /\ inputs = r.inputs
           /\ call = NoCall
           /\ numcall = NoNum
           /\ td = NoTd

InitializeWeights ==
    /\ Idle("net")
    /\ \E drawn \in WeightVecs(net.n_weights), method \in {"random", "zeros"} :
        LET r == initialize_weights(Self, drawn, method)
        IN /\ Becomes(r.self)
           /\ call' = Called("initialize_weights", [method |-> method], r, <<>>)

SetWeights ==
    /\ Idle("net")
    /\ \E w \in WeightVecs(net.n_weights) \cup {PatVec(net.n_weights + 1, 1, MaxWeight), PatVec(1, 0, 2 * MaxWeight)} :
        LET r == set_weights(Self, w)
        IN /\ Becomes(r.self)
           /\ call' = Called("set_weights", [weights |-> w], r, <<>>)

SetInputs ==
    /\ Idle("net")
    /\ \E x \in InputVecs(net.n_inputs) :
        LET r == set_inputs(Self, x)
        IN /\ Becomes(r.self)
           /\ call' = Called("set_inputs", [inputs |-> x], r, <<>>)

FeedForward ==
    /\ Idle("net")
    /\ LET r == feed_forward(Self)
       IN /\ Becomes(r.self)
          /\ call' = Called("feed_forward", [bound |-> inputs], r, <<>>)

CalculateOutputs ==
    /\ Idle("net")
    /\ \E j \in DOMAIN layers :
        LET r == calculate_outputs(Self, j)
        IN /\ Becomes(r.self)
           /\ call' = Called("calculate_outputs", [layer |-> j], r, <<>>)

GetTheta ==
    /\ Idle("net")
    /\ \E w \in WeightsArgs(net.n_weights) \cup {RampArg(net.n_weights)} :
        LET r == get_theta(Self, w)
        IN /\ Becomes(r.self)
           /\ call' = Called("get_theta", [weights |-> w], r, [weights |-> w])

Predict ==
    /\ Idle("net")
    /\ \E x \in PredictArgs(net.n_inputs), w \in WeightsArgs(net.n_weights) :
        LET r == predict(Self, x, w)
        IN /\ Becomes(r.self)
           /\ call' = Called("predict", [inputs |-> x, weights |-> w], r,
                             [inputs |-> r.x, weights |-> w])

CostFunction ==
    /\ Idle("net")
    /\ \E m \in 1..MaxBatch, w \in WeightsArgs(net.n_weights),
          lambda_param \in 0..1, jac \in BOOLEAN :
        LET X == BatchX(m, net.n_inputs)
            y == BatchY(m, net.n_outputs)
            r == cost_function(Self, net.cost_function, X, y, w, lambda_param, jac)
        IN /\ Becomes(r.self)
           /\ call' = Called("cost_function",
                             [X |-> X, y |-> y, weights |-> w,
                              lambda_param |-> lambda_param, jac |-> jac],
                             r, [weights |-> r.w])

Train ==
    /\ Idle("net")
    /\ \E resx \in {PatVec(net.n_weights, 1, b) : b \in {MaxWeight, 2 * MaxWeight}},
          update \in {"True", "False", "1"} :
       \E r \in {train(Self, BatchX(1, net.n_inputs), BatchY(1, net.n_outputs),
                       0, <<weights, resx>>, update)} :
           /\ Becomes(r.self)
           /\ call' = Called("train", [update |-> update, x0 |-> weights], r,
                             [during |-> r.during])

Next ==
    \/ InitializeWeights
    \/ SetWeights
    \/ SetInputs
    \/ FeedForward
    \/ CalculateOutputs
    \/ GetTheta
    \/ Predict
    \/ CostFunction
    \/ Train
    \/ Return

Spec == Init /\ [][Next]_vars

\* The same network when only its weights are set and its cost function is
\* evaluated.
NextCost ==
    \/ SetWeights
    \/ CostFunction
    \/ Return

SpecCost == Init /\ [][NextCost]_vars

-----------------------------------------------------------------------------
(* The same network when the caller also assigns to the attribute          *)
(* net.inputs (the thing the docstring of set_inputs warns against).       *)

\* What the caller can bind net.inputs to: a slice of layers[0].outputs (the
\* original one, outputs[1:], among them), an array of its own, or a list.
Rebindings(n_in) ==
    {InputsView(0, start, stop) : start \in 0..1, stop \in n_in..(n_in + 1)}
        \cup {InputsArray(x) : x \in InputVecs(n_in)}
        \cup {InputsList(x) : x \in InputVecs(n_in)}

\* net.inputs = x
RebindInputs ==
    /\ Idle("net")
    /\ \E x \in Rebindings(net.n_inputs) : inputs' = x
    /\ UNCHANGED <<phase, net, weights, layers, call, td, numcall>>

\* The calls that read or write through net.inputs or the layers' outputs,
\* and the rebinding.
NextAlias ==
    \/ RebindInputs
    \/ SetWeights
    \/ SetInputs
    \/ FeedForward
    \/ Return

SpecAlias == Init /\ [][NextAlias]_vars

-----------------------------------------------------------------------------
(* Construction: MLPNetwork(ndim, act_funcs=..., grad_funcs=...,           *)
(* cost_function=...) with any arguments.                                  *)

CtorDims == {<<1, 1>>, <<2, 2, 1>>, <<3, 5, 3>>, <<1, 2, 3, 1>>}

\* An act_funcs / grad_funcs argument: None, one function, or a sequence of
\* 0..MaxFuncs functions.
FuncArgs(name) ==
    {NoneV, Func(name)} \cup {FuncSeq([k \in 1..n |-> name]) : n \in 0..MaxFuncs}

InitNew ==
    /\ phase = "new"
    /\ net = NoNet
    /\ weights = <<>>
    /\ layers = <<>>
    /\ inputs = InputsArray(<<>>)
    /\ call = NoCall
    /\ numcall = NoNum
    /\ td = NoTd

\* net = MLPNetwork(...): either the network exists afterwards (phase "net")
\* or the constructor raised and there is none (phase "failed").
Construct ==
    /\ Idle("new")
    /\ \E ndim \in CtorDims, a \in FuncArgs("linear"), g \in FuncArgs("linear_gradient"),
          cf \in {"mse", "log", "abs"} :
        LET r == MLPNetwork_init(ndim, a, g, cf)
        IN /\ phase' = IF r.err = "none" THEN "net" ELSE "failed"
           /\ net' = r.net
           /\ weights' = r.weights
           /\ layers' = r.layers
           /\ inputs' = r.inputs
           /\ call' = [op |-> "MLPNetwork",
                       arg |-> [ndim |-> ndim, act_funcs |-> a, grad_funcs |-> g,
                                cost_function |-> cf],
                       ret |-> <<>>, err |-> r.err, after |-> <<>>]
           /\ UNCHANGED <<td, numcall>>

NextCtor ==
    \/ Construct
    \/ Return

SpecCtor == InitNew /\ [][NextCtor]_vars

-----------------------------------------------------------------------------
(* MLPTrainingData.split on a training set of any number of rows.          *)

\* A training set of m rows with one input and one output column, every row
\* different, the output of a row determined by its input.
Rows(m) == LET e(i, j) == IF j = 0 THEN i ELSE -(i + 1) IN Mat(m, 2, e)

RowCounts == 0..MaxRows \cup {2 * MaxRows}

\* ratios: 1..3 entries, each a multiple of 1/RatioDen from -1/RatioDen to
\* 1 + 1/RatioDen, whose sum is 1; and tuples of 1..2 entries whose sum
\* misses 1 by 1/RatioDen.
RatioTuples ==
    UNION {{s \in [1..n -> -1..(RatioDen + 1)] :
                \/ SumSeq(s) = RatioDen
                \/ n < 3 /\ SumSeq(s) = RatioDen - 1} : n \in 1..3}

\* The row order np.random.shuffle is let to draw for n rows: the rows
\* rotated by one.
RowOrders(n) == {[i \in 0..(n - 1) |-> (i + 1) % n]}

InitData ==
    /\ phase = "td"
    /\ net = NoNet
    /\ weights = <<>>
    /\ layers = <<>>
    /\ inputs = InputsArray(<<>>)
    /\ call = NoCall
    /\ numcall = NoNum
    /\ \E m \in RowCounts : td = FromData(Rows(m), 1, 1)

\* td.split(ratios, names, shuffle); names has two entries (the default) or
\* one for each ratio.
Split ==
    /\ Idle("td")
    /\ \E ratios \in RatioTuples, shuffle \in BOOLEAN :
       \E n_names \in {2, Len(ratios)}, perm \in RowOrders(td.inputs.r) :
        LET r == split(td, ratios, n_names, shuffle, perm)
        IN /\ td' = r.self
           /\ call' = [op |-> "split",
                       arg |-> [self |-> td, ratios |-> ratios, n_names |-> n_names,
                                shuffle |-> shuffle],
                       ret |-> <<>>, err |-> r.err, after |-> <<>>]
           /\ UNCHANGED <<phase, net, weights, layers, inputs, numcall>>

NextSplit ==
    \/ Split
    \/ Return

SpecSplit == InitData /\ [][NextSplit]_vars

-----------------------------------------------------------------------------
(* Properties of get_theta                                                 *)

\* The values of a 0-based vector as a sequence
AsSeq(v) == [k \in 1..Len0(v) |-> v[k - 1]]

\* The arrays views[j], ..., views[n_layers - 1] of buf, each flattened
\* row-major, one after the other.
RECURSIVE Flatten(_, _, _)
Flatten(buf, views, j) ==
    IF j = Len0(views) THEN <<>>
    ELSE AsSeq(Ravel(ViewMat(buf, views[j]))) \o Flatten(buf, views, j + 1)

\* The buffer the result of the recorded get_theta call reads.
TheBuffer == IF call.ret.base = "self" THEN weights ELSE call.arg.weights.v

\* C1: whenever get_theta returns, for the network's own weights or for a
\* supplied vector, the returned per-layer arrays flattened and put one after
\* the other in layer order are exactly the flat weight vector.
C1_RoundTrip ==
    (call.op = "get_theta" /\ call.err = "none")
        => Flatten(TheBuffer, call.ret.views, 1) = AsSeq(TheBuffer)

\* get_theta has returned views of a supplied vector of pairwise different
\* values for a network with two weight matrices.
C1_Witness ==
    /\ call.op = "get_theta" /\ call.err = "none"
    /\ call.ret.base = "arg"
    /\ net.n_layers = 3
    /\ \A i, k \in DOMAIN TheBuffer : i # k => TheBuffer[i] # TheBuffer[k]

-----------------------------------------------------------------------------
(* Properties of the cost functions                                        *)

\* The derivative of the forward pass from layer j on, by the rules of
\* differentiation: with dA the derivative of A[j - 1] and dtheta[j] that of
\* theta[j], dZ[j] = dA.theta[j]^T + A[j - 1].dtheta[j]^T and
\* dA[j] = grad_func(Z[j])*dZ[j]; the column of ones has derivative 0.
RECURSIVE Tangent(_, _, _, _, _, _)
Tangent(S, thetaM, dtheta, AZ, j, dA) ==
    IF j = S.net.n_layers THEN dA
    ELSE LET dZ == Plus(Dot(dA, Transpose(thetaM[j])),
                        Dot(AZ.A[j - 1], Transpose(dtheta[j])))
             d == Times(GradM(S.layers[j].grad_func, AZ.Z[j]), dZ)
             e(i, k) == IF k = 0 THEN 0 ELSE d.a[i][k - 1]
         IN Tangent(S, thetaM, dtheta, AZ, j + 1,
                    IF j = S.net.n_layers - 1 THEN d ELSE Mat(d.r, d.c + 1, e))

\* The partial derivative with respect to weight k of
\* J = 0.5*np.sum((A[-1] - y)**2)/m at the weights w (None: the network's own).
DerivativeMse(S, X, y, w, k) ==
    LET th == get_theta(S, w).ret
        thetaM == ThetaMats(S, w, th)
        unit == [i \in 0..(S.net.n_weights - 1) |-> IF i = k THEN 1 ELSE 0]
        dtheta == [j \in 1..(S.net.n_layers - 1) |-> ViewMat(unit, th.views[j])]
        AZ == Forward(S, thetaM, 1, [A |-> (0 :> ConcatOnes(X)), Z |-> <<>>])
        zero(i, j) == 0
        dA == Tangent(S, thetaM, dtheta, AZ, 1, Mat(X.r, X.c + 1, zero))
    IN Rat(SumAll(Times(Minus(AZ.A[S.net.n_layers - 1], y), dA)), X.r)

\* The recorded call is cost_function_mse(X, y, weights, lambda_param=0,
\* jac=True) on a 2-2-1 network, and it returned (J, grad).
MseGradientCall ==
    /\ call.op = "cost_function" /\ call.err = "none"
    /\ net.cost_function = "mse" /\ net.dimensions = <<2, 2, 1>>
    /\ call.arg.jac /\ call.arg.lambda_param = 0

\* C2: on a 2-2-1 network whose layers all use the same activation and its
\* derivative, every entry of the gradient cost_function returns with
\* lambda_param = 0 is the partial derivative of the returned cost with
\* respect to that weight (stated for the mse kind, whose cost is a polynomial
\* in the weights for the activations computed here).
C2_GradientIsDerivative ==
    MseGradientCall =>
        \A k \in 0..(net.n_weights - 1) :
            call.ret.grad[k] = DerivativeMse(Self, call.arg.X, call.arg.y, call.arg.weights, k)

\* With the linear activation (derivative 1 everywhere) the mse gradient is
\* the derivative.
LinearGradientIsDerivative ==
    (MseGradientCall /\ layers[1].act_func = Func("linear"))
        => \A k \in 0..(net.n_weights - 1) :
            call.ret.grad[k] = DerivativeMse(Self, call.arg.X, call.arg.y, call.arg.weights, k)

\* The call just made: the step that leaves the recorded call op.
Calls(op) == call.op = "none" /\ call'.op = op

\* C5: for both kinds and all arguments, cost_function with jac=False returns
\* the cost that is the first component of what it returns with jac=True:
\* whatever a call returned, the call with the other jac returns the same J.
C5_SameCost ==
    (call.op = "cost_function" /\ call.err = "none")
        => LET other == cost_function(Self, net.cost_function, call.arg.X, call.arg.y,
                                      call.arg.weights, call.arg.lambda_param,
                                      ~call.arg.jac)
           IN /\ other.err = "none"
              /\ other.ret.J = call.ret.J
              /\ other.ret.tuple = ~call.ret.tuple
              /\ call.ret.tuple = call.arg.jac

\* cost_function has returned (J, grad) with a regularization term in J.
C5_Witness ==
    /\ call.op = "cost_function" /\ call.err = "none"
    /\ call.arg.jac /\ call.arg.lambda_param = 1
    /\ net.cost_function = "mse"
    /\ call.ret.J.exact # CostCompute(Self, "mse", call.arg.X, call.arg.y,
                                      call.arg.weights, 0, FALSE).ret.J.exact

\* C8: a cost_function call, returning or raising, leaves the network's flat
\* weights, every layer (its outputs among the rest) and the caller's
\* weights array as they were.
C8_CostFunctionFrame ==
    [][Calls("cost_function")
         => /\ weights' = weights
            /\ layers' = layers
            /\ call'.after.weights = call'.arg.weights]_vars

\* cost_function has raised on a supplied weights vector of the wrong length
\* while the network holds weights other than the initial zeros.
C8_Witness ==
    /\ call.op = "cost_function" /\ call.err # "none"
    /\ call.arg.weights.given
    /\ call.arg.weights.shape = <<net.n_weights + 1>>
    /\ \E k \in DOMAIN weights : weights[k] # 0

-----------------------------------------------------------------------------
(* Properties of the layers and of predict                                 *)

\* C3: in every reachable state of a network that is used through its
\* methods, outputs[0] of every layer is 1.
C3_BiasIsOne == phase = "net" => \A j \in DOMAIN layers : layers[j].outputs[0] = 1

\* feed_forward has run and has written other values into outputs[1:] of a
\* hidden layer.
C3_Witness ==
    /\ call.op = "feed_forward" /\ call.err = "none"
    /\ net.n_layers = 3
    /\ layers[1].outputs[1] \notin {0, 1}

\* C4: predict, with or without a weights argument, for 1-dimensional and
\* 2-dimensional inputs, leaves the flat weights and every layer (its weight
\* view and its outputs) as they were.
C4_PredictFrame ==
    [][Calls("predict") => weights' = weights /\ layers' = layers]_vars

\* predict has returned a result computed from supplied weights that are not
\* the network's, for a 1-dimensional input.
C4_Witness ==
    /\ call.op = "predict" /\ call.err = "none"
    /\ call.arg.weights.given /\ call.arg.weights.v # weights
    /\ call.arg.inputs.ndim = 1
    /\ call.ret.m.a[0][0] # 0

-----------------------------------------------------------------------------
(* Properties of get_theta's and feed_forward's checks                     *)

\* The recorded call is get_theta(weights) with an array of another shape
\* than (n_weights,).
WrongShapeCall ==
    /\ call.op = "get_theta"
    /\ call.arg.weights.given
    /\ call.arg.weights.shape # <<net.n_weights>>

\* C9: get_theta with a supplied array whose shape is not (n_weights,) fails
\* with the error the shape check names (ValueError) or with the error of the
\* slicing overrun (MLPError), and returns no views.
C9_WrongShapeError ==
    WrongShapeCall => call.err \in {"ValueError", "MLPError"} /\ call.ret = <<>>

\* The view net.inputs is bound to by the constructor: layers[0].outputs[1:]
OriginalInputs == InputsView(0, 1, layers[0].n_outputs)

\* C10: once net.inputs is bound to anything but the original view, the next
\* feed_forward raises MLPError and no layer's outputs are written.
C10_ReboundRejected ==
    [][(Calls("feed_forward") /\ inputs # OriginalInputs)
         => call'.err = "MLPError" /\ layers' = layers]_vars

-----------------------------------------------------------------------------
(* Properties of the constructor                                           *)

\* The recorded constructor call was given a sequence of another length than
\* len(ndim) - 1 as act_funcs or as grad_funcs.
WrongLengthSeq(x) == x.kind = "seq" /\ Len(x.fs) # Len(call.arg.ndim) - 1

\* C6: constructing a network with an act_funcs or grad_funcs sequence whose
\* length is not len(ndim) - 1 raises and leaves no network.
C6_WrongLengthFails ==
    (call.op = "MLPNetwork"
        /\ (WrongLengthSeq(call.arg.act_funcs) \/ WrongLengthSeq(call.arg.grad_funcs)))
        => call.err # "none" /\ phase = "failed"

-----------------------------------------------------------------------------
(* Properties of split                                                     *)

\* The rows of a matrix as a sequence
RowSeq(A) == [i \in 1..A.r |-> A.a[i - 1]]

\* The rows of the inputs (the outputs) of subsets i.. one after the other
RECURSIVE SubsetInputs(_, _)
SubsetInputs(subsets, i) ==
    IF i > Len(subsets) THEN <<>>
    ELSE RowSeq(subsets[i].inputs) \o SubsetInputs(subsets, i + 1)

RECURSIVE SubsetOutputs(_, _)
SubsetOutputs(subsets, i) ==
    IF i > Len(subsets) THEN <<>>
    ELSE RowSeq(subsets[i].outputs) \o SubsetOutputs(subsets, i + 1)

\* floor(m*r) for the ratio r = k/RatioDen
FloorOfProduct(m, k) == (m * k) \div RatioDen

\* After the recorded split of m rows: subset i but the last has
\* floor(m*ratio_i) rows and the last has the remainder; the subsets are
\* consecutive ranges of the rows (of inputs and outputs alike) that cover
\* them all, each row once; and the rows are the m rows there were.
SplitIsPartition ==
    LET m == call.arg.self.inputs.r
        ratios == call.arg.ratios
        n == Len(ratios)
        size(i) == td.subsets[i].inputs.r
        before == {<<call.arg.self.inputs.a[i], call.arg.self.outputs.a[i]>> : i \in 0..(m - 1)}
        after == [i \in 1..m |-> <<td.inputs.a[i - 1], td.outputs.a[i - 1]>>]
    IN /\ Len(td.subsets) = n
       /\ \A i \in 1..(n - 1) : size(i) = FloorOfProduct(m, ratios[i])
       /\ size(n) = m - SumSeq([i \in 1..(n - 1) |-> size(i)])
       /\ \A i \in 1..n : td.subsets[i].outputs.r = size(i)
       /\ SubsetInputs(td.subsets, 1) = RowSeq(td.inputs)
       /\ SubsetOutputs(td.subsets, 1) = RowSeq(td.outputs)
       /\ Len(after) = m
       /\ {after[i] : i \in 1..m} = before

SplitDone == call.op = "split" /\ call.err = "none"

\* C7 as stated: for every row count and every ratios tuple split accepts,
\* the subsets have floor(m*ratio_i) rows (the last the remainder) and are
\* consecutive disjoint ranges covering all rows once.
C7_EveryAcceptedSplit == SplitDone => SplitIsPartition

\* C7, for ratios none of which is negative: the subsets have
\* floor(m*ratio_i) rows (the last the remainder) and are consecutive
\* disjoint ranges covering all rows once.
C7_NonNegativeSplit ==
    (SplitDone /\ \A i \in DOMAIN call.arg.ratios : call.arg.ratios[i] >= 0)
        => SplitIsPartition

\* The example: twice MaxRows rows, shuffled and split by (0.75, 0.25), give
\* subsets of three quarters and one quarter of the rows.
C7_Witness ==
    /\ SplitDone /\ call.arg.shuffle
    /\ call.arg.self.inputs.r = 2 * MaxRows
    /\ call.arg.ratios = <<(3 * RatioDen) \div 4, RatioDen \div 4>>
    /\ td.subsets[1].inputs.r = (3 * 2 * MaxRows) \div 4
    /\ td.subsets[2].inputs.r = (2 * MaxRows) \div 4
    /\ td.inputs # call.arg.self.inputs

-----------------------------------------------------------------------------
(* Properties of calculate_outputs and of the weight views                 *)

\* C11: calculate_outputs on the layer without an input layer raises MLPError
\* and changes nothing; on a layer with an input layer it writes outputs[1:]
\* of that layer and nothing else: not outputs[0], not the layer's other
\* attributes, not another layer, not the weights.
C11_CalculateOutputsFrame ==
    [][Calls("calculate_outputs") =>
         LET j == call'.arg.layer
         IN /\ weights' = weights
            /\ inputs' = inputs
            /\ layers[j].input_layer = -1
                 => call'.err = "MLPError" /\ layers' = layers
            /\ layers[j].input_layer # -1
                 => /\ call'.err = "none"
                    /\ layers' = [layers EXCEPT ![j].outputs = layers'[j].outputs]
                    /\ layers'[j].outputs[0] = layers[j].outputs[0]]_vars

\* calculate_outputs has raised on layer 0 of a network whose layer 0 holds
\* inputs other than the initial zeros.
C11_Witness ==
    /\ call.op = "calculate_outputs" /\ call.arg.layer = 0
    /\ call.err = "MLPError"
    /\ layers[0].outputs[1] # 0

\* The first flat index of layer j's weights, from the dimensions alone: the
\* sizes n_nodes*(previous n_nodes + 1) of the layers before it, added up.
RECURSIVE BlockFirst(_, _)
BlockFirst(ndim, j) ==
    IF j <= 1 THEN 0 ELSE BlockFirst(ndim, j - 1) + ndim[j] * (ndim[j - 1] + 1)

\* C12: in every state of a network used through its methods, the flat
\* buffer has n_weights elements and each non-input layer's weights is the
\* view of shape (n_nodes, previous.n_outputs) onto its fixed range of it:
\* entry (r, c) of layer j's view is flat element first_j + r*previous.n_outputs + c.
C12_ViewsOntoBuffer ==
    phase = "net" =>
        /\ DOMAIN weights = 0..(net.n_weights - 1)
        /\ \A j \in 1..(net.n_layers - 1) :
             LET v == layers[j].weights
                 cols == layers[j - 1].n_outputs
                 first == BlockFirst(net.dimensions, j)
             IN /\ v = View(first, first + layers[j].n_nodes * cols, <<layers[j].n_nodes, cols>>)
                /\ v.last <= net.n_weights
                /\ \A r \in 0..(layers[j].n_nodes - 1), c \in 0..(cols - 1) :
                     ViewMat(weights, v).a[r][c] = weights[first + r * cols + c]

\* set_weights has written values that the view of the last layer of a
\* three-layer network shows.
C12_Witness ==
    /\ call.op = "set_weights" /\ call.err = "none"
    /\ net.n_layers = 3
    /\ DOMAIN call.arg.weights = DOMAIN weights
    /\ ViewMat(weights, layers[2].weights).a[0][1] # 0
    /\ ViewMat(weights, layers[2].weights).a[0][1] = call.arg.weights[BlockFirst(net.dimensions, 2) + 1]

-----------------------------------------------------------------------------
(* Properties of the gradient vector                                       *)

\* The recorded call is cost_function(..., jac=True) and it returned (J, grad).
GradientCall ==
    /\ call.op = "cost_function" /\ call.err = "none"
    /\ call.arg.jac

\* p - q for two rationals
RatSub(p, q) == RatAdd(p, <<-q[1], q[2]>>)

\* C13: for both kinds the gradient returned has n_weights elements, and
\* layer j's gradient block is the range and the row-major shape of layer j's
\* weight block, so that element k of the gradient belongs to weight k: with
\* the linear activation, the mse cost and lambda_param = 0 it is the
\* derivative of J with respect to weight k.
C13_GradientLayout ==
    GradientCall =>
        /\ DOMAIN call.ret.grad = 0..(net.n_weights - 1)
        /\ LET tg == GradViews(Self, 1, 0, [j \in DOMAIN layers |-> NoView])
           IN /\ tg.err = "none"
              /\ \A j \in 1..(net.n_layers - 1) : tg.theta_grad[j] = layers[j].weights
        /\ (net.cost_function = "mse" /\ layers[1].act_func = Func("linear"))
             => \A k \in 0..(net.n_weights - 1) :
                  CostCompute(Self, "mse", call.arg.X, call.arg.y, call.arg.weights,
                              0, TRUE).ret.grad[k] =
                  DerivativeMse(Self, call.arg.X, call.arg.y, call.arg.weights, k)

\* cost_function has returned a gradient for a three-layer network whose
\* two blocks both hold non-zero entries.
C13_Witness ==
    /\ GradientCall
    /\ net.n_layers = 3
    /\ call.ret.grad[0] # <<0, 1>>
    /\ call.ret.grad[net.n_weights - 1] # <<0, 1>>

-----------------------------------------------------------------------------
(* Properties of predict's result                                          *)

PredictDone == call.op = "predict" /\ call.err = "none"

\* The result of the recorded predict call is a 2-dimensional array of rows
\* rows and n_outputs columns.
PredictGaveBatch(rows) ==
    /\ call.ret.ndim = 2
    /\ call.ret.m.r = rows /\ call.ret.m.c = net.n_outputs
    /\ DOMAIN call.ret.m.a = 0..(rows - 1)

\* C14 as stated: predict returns an m x n_out array for a 2-dimensional
\* input of m rows and a 1-dimensional vector of n_out values for a single
\* 1-dimensional example.
C14_ResultShapeAsInput ==
    PredictDone =>
        /\ call.arg.inputs.ndim = 2 => PredictGaveBatch(call.arg.inputs.m.r)
        /\ call.arg.inputs.ndim = 1 => call.ret.ndim = 1

\* C14: predict returns an m x n_out array for a 2-dimensional input of m
\* rows, and a 1 x n_out array, 2-dimensional as well, for a single
\* 1-dimensional example.
C14_ResultIsBatch ==
    PredictDone =>
        /\ call.arg.inputs.ndim = 2 => PredictGaveBatch(call.arg.inputs.m.r)
        /\ call.arg.inputs.ndim = 1 => PredictGaveBatch(1)

\* predict has returned a 1 x n_out array for a single 1-dimensional example,
\* computed with the network's own weights.
C14_Witness ==
    /\ PredictDone
    /\ call.arg.inputs.ndim = 1 /\ ~call.arg.weights.given
    /\ call.ret.ndim = 2 /\ call.ret.m.r = 1
    /\ call.ret.m.a[0][0] # 0

-----------------------------------------------------------------------------
(* Construction of the training data: MLPTrainingData(data=..., ndim=...)  *)
(* or MLPTrainingData(inputs=..., outputs=...), with or without scaling.   *)

\* m values 0, 1, ..., or m times the same value, or with NaN as the first value
Values(m, kind) ==
    [k \in 0..(m - 1) |-> IF kind = "nan" /\ k = 0 THEN NaN
                          ELSE IF kind = "same" THEN 1 ELSE k]

ValueKinds == {"ramp", "same", "nan"}

\* An inputs or outputs argument of m values: a 1-dimensional array, a column,
\* two equal columns, or a 3-dimensional array.
ArrayArgs(m) ==
    UNION {{ArrayArg("ndarray", 1, Transpose(Column(Values(m, kind)))),
            ArrayArg("ndarray", 2, Column(Values(m, kind))),
            ArrayArg("ndarray", 2, ConcatCols(Column(Values(m, kind)), Column(Values(m, kind)))),
            ArrayArg("ndarray", 3, Column(Values(m, kind)))} : kind \in ValueKinds}

\* A data argument of m rows: two columns (the rows of Rows, or a first
\* column of any kind beside a column of ramp values), or 1-dimensional.
DataArgs(m) ==
    {ArrayArg("ndarray", 2, Rows(m))}
        \cup {ArrayArg("ndarray", 2, ConcatCols(Column(Values(m, kind)), Column(Values(m, "ramp")))) :
               kind \in ValueKinds}
        \cup {ArrayArg("ndarray", 1, Transpose(Column(Values(m, "ramp"))))}

InitNoData ==
    /\ phase = "nodata"
    /\ net = NoNet
    /\ weights = <<>>
    /\ layers = <<>>
    /\ inputs = InputsArray(<<>>)
    /\ call = NoCall
    /\ numcall = NoNum
    /\ td = NoTd

\* The outcome of a constructor call
Constructed(r, arg) ==
    /\ phase' = IF r.err = "none" THEN "td" ELSE "failed"
    /\ td' = r.self
    /\ call' = [op |-> "MLPTrainingData", arg |-> arg, ret |-> <<>>, err |-> r.err,
                after |-> <<>>]
    /\ UNCHANGED <<net, weights, layers, inputs, numcall>>

\* td = MLPTrainingData(data=data, ndim=(n_in, n_out), scaling=scaling)
ConstructFromData ==
    /\ Idle("nodata")
    /\ \E m \in 0..MaxRows, n_in \in 1..2, scaling \in BOOLEAN :
       \E data \in DataArgs(m) :
        Constructed(MLPTrainingData_init(data, n_in, 1, NoArray, NoArray, scaling),
                    [data |-> data, n_in |-> n_in, n_out |-> 1, inputs |-> NoArray,
                     outputs |-> NoArray, scaling |-> scaling])

\* td = MLPTrainingData(inputs=inp, outputs=out, scaling=scaling)
ConstructFromArrays ==
    /\ Idle("nodata")
    /\ \E m \in 0..MaxRows, k \in 0..MaxRows, scaling \in BOOLEAN :
       \E inp \in ArrayArgs(m), out \in ArrayArgs(k) :
        Constructed(MLPTrainingData_init(NoArray, 0, 0, inp, out, scaling),
                    [data |-> NoArray, n_in |-> 0, n_out |-> 0, inputs |-> inp,
                     outputs |-> out, scaling |-> scaling])

NextData ==
    \/ ConstructFromData
    \/ ConstructFromArrays
    \/ Return

SpecData == InitNoData /\ [][NextData]_vars

\* C15: every MLPTrainingData that the constructor returns, from a data
\* matrix or from inputs and outputs, with or without scaling, has as many
\* rows of inputs as of outputs, holds no NaN, and has n_in input columns and
\* n_out output columns.
C15_ConstructedIsValid ==
    (call.op = "MLPTrainingData" /\ call.err = "none") =>
        /\ td.inputs.r = td.outputs.r
        /\ ~HasNaN(td.inputs) /\ ~HasNaN(td.outputs)
        /\ td.inputs.c = td.n_in /\ td.outputs.c = td.n_out

\* The part of it that holds: the column counts, and no NaN when scaling is
\* not asked for; when data is given the row counts too.
ConstructedColumnsValid ==
    (call.op = "MLPTrainingData" /\ call.err = "none") =>
        /\ td.inputs.c = td.n_in /\ td.outputs.c = td.n_out
        /\ ~call.arg.scaling => ~HasNaN(td.inputs) /\ ~HasNaN(td.outputs)
        /\ ~HasNaN(td.outputs)
        /\ call.arg.data.type # "none" => td.inputs.r = td.outputs.r

-----------------------------------------------------------------------------
(* Properties of split's validation                                        *)

\* C16: a call of split whose ratios do not sum to 1 raises ValueError and
\* leaves the training set as it was: inputs, outputs and data are the same,
\* and subsets and n_subsets are neither created nor replaced.
C16_BadRatiosRejected ==
    [][(Calls("split") /\ SumSeq(call'.arg.ratios) # RatioDen) =>
           (call'.err = "ValueError" /\ td' = td)]_vars

\* split has rejected ratios on a training set that holds the subsets of an
\* earlier split into a different number of parts, and they are still there.
C16_Witness ==
    /\ call.op = "split" /\ call.err = "ValueError"
    /\ SumSeq(call.arg.ratios) # RatioDen
    /\ td.has_subsets /\ td.has_n_subsets
    /\ td.n_subsets # Len(call.arg.ratios)
    /\ Len(td.subsets) = td.n_subsets
    /\ td = call.arg.self

-----------------------------------------------------------------------------
(* Properties of train                                                     *)

\* C17: after train with update=True, net.weights holds the vector res.x of
\* the optimizer, written into the same buffer; with an update that is not
\* True, net.weights is as before the call; and after every evaluation of the
\* objective that minimize makes, net.weights is still as before the call.
C17_TrainWritesBack ==
    [][(Calls("train") /\ call'.err = "none") =>
           /\ \A i \in DOMAIN call'.after.during : call'.after.during[i] = weights
           /\ call'.arg.update = "True" =>
                  weights' = call'.ret.x /\ DOMAIN weights' = DOMAIN weights
           /\ call'.arg.update # "True" => weights' = weights
           /\ net' = net]_vars

\* train(update=True) has evaluated the objective twice and then replaced
\* net.weights by a different vector.
C17_Witness ==
    /\ call.op = "train" /\ call.err = "none"
    /\ call.arg.update = "True"
    /\ Len(call.after.during) = 2
    /\ weights = call.ret.x /\ weights # call.arg.x0

-----------------------------------------------------------------------------
(* Properties of the carving of the flat buffer                            *)

\* C18: for every dimension list, the ranges that the constructor carves
\* for the layers are consecutive (the first starts at 0, each next one
\* where the one before ends), disjoint, of n_nodes_j*(n_nodes_{j-1} + 1)
\* elements each, and the last ends at n_weights; so the constructor never
\* raises the overrun or reshape error, and the same carving in get_theta
\* and in the gradient arrays of the cost functions does not either.
C18_CarvingFits ==
    /\ (call.op = "MLPNetwork" /\ call.arg.cost_function \in {"mse", "log"}) =>
           call.err # "MLPError"
    /\ phase = "net" =>
        /\ layers[1].weights.first = 0
        /\ \A j \in 1..(net.n_layers - 1) :
             /\ layers[j].weights.last - layers[j].weights.first
                    = net.dimensions[j + 1] * (net.dimensions[j] + 1)
             /\ j + 1 < net.n_layers =>
                    layers[j + 1].weights.first = layers[j].weights.last
             /\ \A k \in (j + 1)..(net.n_layers - 1) :
                    layers[j].weights.last <= layers[k].weights.first
        /\ layers[net.n_layers - 1].weights.last = net.n_weights
        /\ ThetaViews(Self, 1, 0, [j \in DOMAIN layers |-> NoView]).err = "none"
        /\ get_theta(Self, RampArg(net.n_weights)).err = "none"
        /\ GradViews(Self, 1, 0, [j \in DOMAIN layers |-> NoView]).err = "none"

\* MLPNetwork([3, 5, 3]) has been constructed: the second block starts where
\* the first one ends and ends at n_weights.
C18_Witness ==
    /\ phase = "net" /\ call.op = "MLPNetwork" /\ call.err = "none"
    /\ net.dimensions = <<3, 5, 3>>
    /\ layers[1].weights.last = 5 * (3 + 1)
    /\ layers[2].weights.first = 5 * (3 + 1)
    /\ net.n_weights = 5 * (3 + 1) + 3 * (5 + 1)

-----------------------------------------------------------------------------
(* Properties of the regularization                                        *)

\* The weights that the recorded cost_function call computed with
UsedWeights == IF call.arg.weights.given THEN call.arg.weights.v ELSE weights

\* Flat index k is in column 0 (the bias column) of its layer's block
BiasColumn(ndim, k) ==
    \E j \in 1..(Len(ndim) - 1) :
        /\ BlockFirst(ndim, j) <= k /\ k < BlockFirst(ndim, j + 1)
        /\ (k - BlockFirst(ndim, j)) % (ndim[j] + 1) = 0

\* The sum of the squares of the weights that are not in a bias column
SumSquaresNoBias(ndim, w) ==
    SumTo([k \in DOMAIN w |-> IF BiasColumn(ndim, k) THEN 0 ELSE w[k] * w[k]],
          Cardinality(DOMAIN w))

\* C19: regularization never involves column 0 of a weight matrix.  With
\* lambda_param = lam the cost is the cost without regularization plus
\* lam * (sum of the squares of the weights in columns 1.. of every layer) / (2m),
\* and element k of the gradient is the element without regularization plus
\* zero when weight k is in column 0 and plus lam * weight k / m otherwise.
C19_BiasNotRegularized ==
    (GradientCall /\ call.arg.lambda_param = 1) =>
        \A lam \in 1..2 :
            LET m == call.arg.X.r
                w == UsedWeights
                plain == CostCompute(Self, net.cost_function, call.arg.X, call.arg.y,
                                     call.arg.weights, 0, TRUE).ret
                reg == IF lam = call.arg.lambda_param THEN call.ret
                       ELSE CostCompute(Self, net.cost_function, call.arg.X, call.arg.y,
                                        call.arg.weights, lam, TRUE).ret
            IN /\ RatSub(reg.J.exact, plain.J.exact)
                      = Rat(lam * SumSquaresNoBias(net.dimensions, w), 2 * m)
               /\ reg.J.logsum = plain.J.logsum
               /\ \A k \in 0..(net.n_weights - 1) :
                     RatSub(reg.grad[k], plain.grad[k])
                         = IF BiasColumn(net.dimensions, k) THEN <<0, 1>>
                           ELSE Rat(lam * w[k], m)

\* cost_function has returned a regularized cost and gradient for weights
\* that are nonzero in a bias column and in another column of the last layer.
C19_Witness ==
    /\ GradientCall /\ call.arg.lambda_param = 1
    /\ net.n_layers = 3
    /\ LET first == BlockFirst(net.dimensions, 2)
           plain == CostCompute(Self, net.cost_function, call.arg.X, call.arg.y,
                                call.arg.weights, 0, TRUE).ret
       IN /\ UsedWeights[first] # 0 /\ UsedWeights[first + 1] # 0
          /\ call.ret.grad[first] = plain.grad[first]
          /\ call.ret.grad[first + 1] # plain.grad[first + 1]
          /\ call.ret.J.exact # plain.J.exact

-----------------------------------------------------------------------------
(* The two cost functions side by side                                     *)

-----------------------------------------------------------------------------
(* Properties of the reverse pass                                          *)

\* The arrays A, Z and sigma of the recorded cost_function call
CallTheta == ThetaMats(Self, call.arg.weights, get_theta(Self, call.arg.weights).ret)
CallAZ == Forward(Self, CallTheta, 1, [A |-> (0 :> ConcatOnes(call.arg.X)), Z |-> <<>>])
CallSigma ==
    Backward(Self, CallTheta, CallAZ, net.n_layers - 2,
             ((net.n_layers - 1) :> Minus(CallAZ.A[net.n_layers - 1], call.arg.y)))

-----------------------------------------------------------------------------
(* compute_derivative_numerically(J, theta), step by step.  Every float is  *)
(* held as an integer count of e = 1.0e-4: theta[k] = t*e is held as t, and *)
(* the perturbation e as 1.  The functions J are linear with integer        *)
(* coefficients, so that a loss is a count of e as well, and                *)
(* (loss2 - loss1)/(2.0*e) is the exact rational (loss2 - loss1)/2.         *)

\* The functions J: one returns the cost alone, one the tuple (cost, grad).
JKinds == {"cost", "tuple"}

\* J(theta) = 3*theta[0] + 2*theta[n - 1] + 1, alone or with its gradient
JApply(J, theta) ==
    LET n == Len0(theta)
        cost == 3 * theta[0] + 2 * theta[n - 1] + 1
    IN IF J = "tuple"
       THEN [tuple |-> TRUE, v |-> <<cost, [k \in 0..(n - 1) |-> 0]>>]
       ELSE [tuple |-> FALSE, v |-> cost]

\* "if isinstance(loss, tuple): loss = loss[0]"
LossOf(r) == IF r.tuple THEN r.v[1] ELSE r.v

\* theta arguments: short vectors of values and of zeros, and vectors of
\* PauseAbove and PauseAbove + 1 zeros.
ThetaArgs ==
    {[k \in 0..(n - 1) |-> (k + 1) * b] : n \in 1..MaxTheta, b \in 0..1}
        \cup {[k \in 0..(n - 1) |-> 0] : n \in {PauseAbove, PauseAbove + 1}}

InitNum ==
    /\ phase = "numeric"
    /\ net = NoNet
    /\ weights = <<>>
    /\ layers = <<>>
    /\ inputs = InputsArray(<<>>)
    /\ call = NoCall
    /\ td = NoTd
    /\ numcall = NoNum

\* The call, up to the loop: numgrad and perturb are zeros, and for
\* n > 1000 the warning is printed and raw_input waits for a line of stdin.
NumCall ==
    /\ phase = "numeric" /\ numcall.pc = "none"
    /\ \E J \in JKinds, theta \in ThetaArgs :
        LET n == Len0(theta)
        IN numcall' = [pc |-> IF n > PauseAbove THEN "paused" ELSE "loop",
                   J |-> J, theta0 |-> theta, theta |-> theta, n |-> n, p |-> 0,
                   numgrad |-> [k \in 0..(n - 1) |-> <<0, 1>>],
                   perturb |-> [k \in 0..(n - 1) |-> 0],
                   evals |-> 0, args |-> <<>>, warned |-> n > PauseAbove,
                   waited |-> FALSE, ret |-> <<>>, err |-> "none"]
    /\ UNCHANGED <<phase, net, weights, layers, inputs, call, td>>

\* The user presses enter: raw_input returns.
NumEnter ==
    /\ numcall.pc = "paused"
    /\ numcall' = [numcall EXCEPT !.pc = "loop", !.waited = TRUE]
    /\ UNCHANGED <<phase, net, weights, layers, inputs, call, td>>

\* stdin is at its end: raw_input raises EOFError.
NumEof ==
    /\ numcall.pc = "paused"
    /\ numcall' = [numcall EXCEPT !.pc = "raised", !.waited = TRUE, !.err = "EOFError"]
    /\ UNCHANGED <<phase, net, weights, layers, inputs, call, td>>

\* A loop body that leaves out "perturb[p] = 0.0"
NumBodyNoReset(f) ==
    LET p == f.p
        perturb == [f.perturb EXCEPT ![p] = 1]
        a1 == [k \in 0..(f.n - 1) |-> f.theta[k] - perturb[k]]
        a2 == [k \in 0..(f.n - 1) |-> f.theta[k] + perturb[k]]
        loss1 == LossOf(JApply(f.J, a1))
        loss2 == LossOf(JApply(f.J, a2))
    IN [f EXCEPT !.perturb = perturb,
                 !.numgrad = [@ EXCEPT ![p] = Rat(loss2 - loss1, 2)],
                 !.args = <<a1, a2>>, !.evals = @ + 2, !.p = p + 1]

\* One pass of the loop body, for index p:
\* perturb[p] = e; loss1 = J(theta - perturb); loss2 = J(theta + perturb);
\* numgrad[p] = (loss2 - loss1)/(2.0*e); perturb[p] = 0.0
NumBody(f) ==
    LET p == f.p
        perturb == [f.perturb EXCEPT ![p] = 1]
        a1 == [k \in 0..(f.n - 1) |-> f.theta[k] - perturb[k]]
        a2 == [k \in 0..(f.n - 1) |-> f.theta[k] + perturb[k]]
        loss1 == LossOf(JApply(f.J, a1))
        loss2 == LossOf(JApply(f.J, a2))
    IN [f EXCEPT !.perturb = [perturb EXCEPT ![p] = 0],
                 !.numgrad = [@ EXCEPT ![p] = Rat(loss2 - loss1, 2)],
                 !.args = <<a1, a2>>, !.evals = @ + 2, !.p = p + 1]

NumIterate ==
    /\ numcall.pc = "loop" /\ numcall.p < numcall.n
    /\ \E f \in {NumBody(numcall)} : numcall' = f
    /\ UNCHANGED <<phase, net, weights, layers, inputs, call, td>>

\* return numgrad
NumReturn ==
    /\ numcall.pc = "loop" /\ numcall.p = numcall.n
    /\ numcall' = [numcall EXCEPT !.pc = "done", !.ret = numcall.numgrad]
    /\ UNCHANGED <<phase, net, weights, layers, inputs, call, td>>

\* The caller goes on after the call has returned or raised.
NumEnd ==
    /\ numcall.pc \in {"done", "raised"}
    /\ numcall' = NoNum
    /\ UNCHANGED <<phase, net, weights, layers, inputs, call, td>>

NextNum ==
    \/ NumCall
    \/ NumEnter
    \/ NumEof
    \/ NumIterate
    \/ NumReturn
    \/ NumEnd

SpecNum == InitNum /\ [][NextNum]_vars

\* theta with element p changed by d
Perturbed(theta, p, d) == [theta EXCEPT ![p] = @ + d]

\* C22: every pass of the loop, for index p, evaluates J exactly twice, at
\* theta with only element p decreased by e and at theta with only element p
\* increased by e, and sets numgrad[p] to (J(theta+) - J(theta-))/(2e) from
\* the cost component alone; theta is never modified, and the perturbation
\* of index p is gone before the next pass.  The result is numgrad.
C22_CentralDifferences ==
    [][/\ (numcall.pc = "loop" /\ numcall'.pc = "loop") =>
              LET p == numcall.p
                  lo == Perturbed(numcall.theta0, p, -1)
                  hi == Perturbed(numcall.theta0, p, 1)
              IN /\ numcall'.p = p + 1
                 /\ numcall'.evals = numcall.evals + 2
                 /\ numcall'.args = <<lo, hi>>
                 /\ numcall'.numgrad
                       = [numcall.numgrad EXCEPT
                            ![p] = Rat((3 * hi[0] + 2 * hi[numcall.n - 1])
                                       - (3 * lo[0] + 2 * lo[numcall.n - 1]), 2)]
                 /\ numcall'.theta = numcall.theta0
                 /\ \A k \in 0..(numcall.n - 1) : numcall'.perturb[k] = 0
       /\ numcall'.pc = "done" =>
              /\ numcall'.evals = 2 * numcall.n /\ numcall'.theta = numcall.theta0
              /\ numcall'.ret = numcall.numgrad]_vars

\* The derivative of a vector of MaxTheta values has been returned: the
\* first and the last element of it are not zero, those between are.
C22_Witness ==
    /\ numcall.pc = "done" /\ numcall.n = MaxTheta /\ numcall.J = "tuple"
    /\ numcall.theta0[0] # 0
    /\ numcall.ret[0] = <<3, 1>> /\ numcall.ret[numcall.n - 1] = <<2, 1>>
    /\ \A k \in 1..(numcall.n - 2) : numcall.ret[k] = <<0, 1>>
    /\ numcall.evals = 2 * MaxTheta

\* C23: compute_derivative_numerically never waits on anything external:
\* for a large n it prints the warning and goes on with the loop.
C23_NeverWaits == numcall.pc # "paused" /\ (numcall.pc = "raised" => numcall.err # "EOFError")

-----------------------------------------------------------------------------
(* Properties of the rows after split                                      *)

\* The (input row, output row) pairs of a training set, row by row
Pairs(t) == [i \in 1..t.inputs.r |-> <<t.inputs.a[i - 1], t.outputs.a[i - 1]>>]

\* How many times the pair x is among the pairs ps
PairCount(ps, x) == Cardinality({i \in DOMAIN ps : ps[i] = x})

\* C24: after a call of split, shuffled or not, the training set holds the
\* same multiset of (input row, output row) pairs as before it, and row k of
\* the inputs and row k of the outputs of every subset are one of those pairs.
C24_PairingKept ==
    call.op = "split" =>
        LET before == Pairs(call.arg.self)
            after == Pairs(td)
        IN /\ td.inputs.r = td.outputs.r
           /\ Len(after) = Len(before)
           /\ \A i \in DOMAIN before :
                PairCount(after, before[i]) = PairCount(before, before[i])
           /\ \A s \in DOMAIN td.subsets :
                /\ td.subsets[s].inputs.r = td.subsets[s].outputs.r
                /\ \A k \in DOMAIN Pairs(td.subsets[s]) :
                     PairCount(before, Pairs(td.subsets[s])[k]) > 0

\* A shuffled split has moved the rows of a training set of MaxRows rows,
\* and the first row of the second subset is a pair that was there before.
C24_Witness ==
    /\ SplitDone /\ call.arg.shuffle
    /\ call.arg.self.inputs.r = MaxRows
    /\ Pairs(td) # Pairs(call.arg.self)
    /\ Len(td.subsets) = 2 /\ td.subsets[2].inputs.r > 0
    /\ PairCount(Pairs(call.arg.self), Pairs(td.subsets[2])[1]) = 1

\* C25: after a shuffled split everything the training set holds for its
\* rows is in the same permuted order: the data matrix it was built from is
\* still the inputs beside the outputs, row by row, and the subsets (for
\* ratios that are not negative) are the consecutive slices of that order.
C25_ReorderedInPlace ==
    (SplitDone /\ call.arg.shuffle) =>
        /\ td.data.has => td.data.m = ConcatCols(td.inputs, td.outputs)
        /\ (\A i \in DOMAIN call.arg.ratios : call.arg.ratios[i] >= 0) =>
              /\ SubsetInputs(td.subsets, 1) = RowSeq(td.inputs)
              /\ SubsetOutputs(td.subsets, 1) = RowSeq(td.outputs)

\* What does hold: the data matrix is the one from before the call, in the
\* order from before the call, whatever split did to inputs and outputs.
SplitKeepsData == call.op = "split" => td.data = call.arg.self.data

-----------------------------------------------------------------------------
(* Properties of the validation in MLPTrainingData.__init__                *)

\* Some value of the array A is NaN
HoldsNaN(A) == \E i \in DOMAIN A.a : \E j \in DOMAIN A.a[i] : A.a[i][j] = NaN

\* The recorded constructor call was given arguments that the validation is
\* to reject.
InvalidData ==
    LET a == call.arg
    IN IF a.data.type # "none"
       THEN a.data.ndim # 2 \/ a.data.m.c # a.n_in + a.n_out \/ HoldsNaN(a.data.m)
       ELSE \/ HoldsNaN(a.inputs.m) \/ HoldsNaN(a.outputs.m)
            \/ a.inputs.ndim \notin {1, 2} \/ a.outputs.ndim \notin {1, 2}

\* C26: the constructor raises ValueError and gives no object whenever the
\* combined data is not 2-dimensional, has another number of columns than
\* n_in + n_out or holds a NaN, and whenever inputs or outputs given
\* separately hold a NaN or have more than 2 dimensions; a 1-dimensional
\* inputs or outputs of n values becomes a column of n rows.
C26_InvalidDataRejected ==
    call.op = "MLPTrainingData" =>
        /\ InvalidData => call.err = "ValueError" /\ phase = "failed" /\ td = NoTd
        /\ (call.err = "none" /\ call.arg.data.type = "none") =>
             /\ call.arg.inputs.ndim = 1 =>
                    td.inputs.c = 1 /\ td.inputs.r = call.arg.inputs.m.c
             /\ call.arg.outputs.ndim = 1 =>
                    td.outputs.c = 1 /\ td.outputs.r = call.arg.outputs.m.c

\* The constructor has rejected 2-dimensional inputs and outputs for a NaN
\* in the outputs alone.
C26_Witness ==
    /\ call.op = "MLPTrainingData" /\ call.err = "ValueError"
    /\ call.arg.data.type = "none"
    /\ call.arg.inputs.ndim = 2 /\ call.arg.outputs.ndim = 2
    /\ ~HoldsNaN(call.arg.inputs.m) /\ HoldsNaN(call.arg.outputs.m)
    /\ call.arg.inputs.m.r = MaxRows
    /\ phase = "failed"

-----------------------------------------------------------------------------
(* The three forward passes                                                *)

\* net.inputs and net.outputs: layers[0].outputs[1:] and layers[-1].outputs[1:]
NetInputs == [k \in 0..(net.n_inputs - 1) |-> layers[0].outputs[k + 1]]
NetOutputs == [k \in 0..(net.n_outputs - 1) |-> layers[net.n_layers - 1].outputs[k + 1]]

\* A vector as a batch of one row
OneRow(v) == Mat(1, Len0(v), LAMBDA i, j : v[j])

\* C27: after set_inputs(x) and feed_forward(), net.outputs is what
\* predict(x) returns for the row x, given as a batch of one row or as a
\* 1-dimensional example, and it is the last activation A[L-1] that the cost
\* function computes for that row: the mse cost of x against net.outputs is 0.
C27_ForwardPassesAgree ==
    (call.op = "feed_forward" /\ call.err = "none") =>
        LET L == net.n_layers
            X == OneRow(NetInputs)
            p2 == predict(Self, ArrayArg("ndarray", 2, X), NoWeights)
            p1 == predict(Self, ArrayArg("list", 1, X), NoWeights)
            theta == ThetaMats(Self, NoWeights, get_theta(Self, NoWeights).ret)
            AZ == Forward(Self, theta, 1, [A |-> (0 :> ConcatOnes(X)), Z |-> <<>>])
            c == CostCompute(Self, "mse", X, OneRow(NetOutputs), NoWeights, 0, FALSE)
        IN /\ p2.err = "none" /\ p1.err = "none" /\ c.err = "none"
           /\ \A k \in 0..(net.n_outputs - 1) :
                /\ NetOutputs[k] = p2.ret.m.a[0][k]
                /\ NetOutputs[k] = p1.ret.m.a[0][k]
                /\ NetOutputs[k] = AZ.A[L - 1].a[0][k]
           /\ c.ret.J.exact = <<0, 1>>

\* feed_forward has run on a three-layer network with inputs and weights
\* that are not all zero, and has given an output that is not zero.
C27_Witness ==
    /\ call.op = "feed_forward" /\ call.err = "none"
    /\ net.n_layers = 3
    /\ \E k \in DOMAIN NetInputs : NetInputs[k] # 0
    /\ layers[1].outputs[1] # 0
    /\ NetOutputs[0] # 0
    /\ NetOutputs[0] = predict(Self, ArrayArg("ndarray", 2, OneRow(NetInputs)), NoWeights).ret.m.a[0][0]

-----------------------------------------------------------------------------
(* Calls with an explicit weights vector                                   *)

\* Another network of the same dimensions, functions and cost function, as
\* the constructor leaves it: weights all zero, outputs zero but the biases.
FreshNet ==
    LET r == InitNetwork(net.dimensions, net.act_funcs, net.grad_funcs, net.cost_function)
    IN [net |-> r.net, weights |-> r.weights, layers |-> r.layers, inputs |-> r.inputs]

\* C28: predict and cost_function called with an explicit weights vector
\* return (or raise) what the same call returns on another network of the
\* same shape whose stored weights and layer outputs differ: the result
\* depends on the arguments and on the fixed dimensions and functions only,
\* whatever set_weights, initialize_weights, feed_forward or train did to
\* the network before the call.
C28_ExplicitWeightsOnly ==
    /\ (call.op = "predict" /\ call.arg.weights.given) =>
          LET other == predict(FreshNet, call.arg.inputs, call.arg.weights)
          IN call.err = other.err /\ call.ret = other.ret
    /\ (call.op = "cost_function" /\ call.arg.weights.given) =>
          LET other == cost_function(FreshNet, net.cost_function, call.arg.X, call.arg.y,
                                     call.arg.weights, call.arg.lambda_param, call.arg.jac)
          IN call.err = other.err /\ call.ret = other.ret

\* predict has returned a nonzero result for explicit weights on a network
\* whose stored weights and hidden layer outputs are not those of a new one.
C28_Witness ==
    /\ call.op = "predict" /\ call.err = "none" /\ call.arg.weights.given
    /\ net.n_layers = 3
    /\ weights # FreshNet.weights /\ weights # call.arg.weights.v
    /\ layers[1].outputs # FreshNet.layers[1].outputs
    /\ call.ret.m.a[0][0] # 0

-----------------------------------------------------------------------------
(* Properties of set_weights                                               *)

\* C29: set_weights(w) returns only for a w of n_weights elements, and then
\* weights[k] = w[k] for every k; for a w of any other length, a single
\* element included, it raises and leaves the stored weights as they were.
C29_OnlyFullLength ==
    [][Calls("set_weights") =>
           IF Len0(call'.arg.weights) = net.n_weights
           THEN call'.err = "none" /\ weights' = call'.arg.weights
           ELSE call'.err # "none" /\ weights' = weights]_vars

\* What does hold: a w of n_weights elements is copied, a w of one element
\* is written to every weight, and any other w raises ValueError and leaves
\* the stored weights as they were.
SetWeightsBroadcasts ==
    [][Calls("set_weights") =>
           LET w == call'.arg.weights
           IN IF Len0(w) = net.n_weights
              THEN call'.err = "none" /\ weights' = w
              ELSE IF Len0(w) = 1
              THEN call'.err = "none" /\ \A k \in DOMAIN weights' : weights'[k] = w[0]
              ELSE call'.err = "ValueError" /\ weights' = weights]_vars

-----------------------------------------------------------------------------
(* The caller's inputs array after predict                                 *)

\* C30: when predict has returned, the array the caller gave as inputs has
\* the values and the shape it had before the call, 1-dimensional or
\* 2-dimensional.
C30_InputsArgumentKept ==
    PredictDone =>
        /\ call.after.inputs.m = call.arg.inputs.m
        /\ call.after.inputs.ndim = call.arg.inputs.ndim

\* What does hold: the values are kept, and the shape of every inputs but a
\* 1-dimensional ndarray, which is left with the shape (1, n).
PredictReshapesVector ==
    call.op = "predict" =>
        /\ call.after.inputs.m = call.arg.inputs.m
        /\ call.after.inputs.ndim
              = IF call.arg.inputs.type = "ndarray" /\ call.arg.inputs.ndim = 1
                THEN 2 ELSE call.arg.inputs.ndim

====
